---- MODULE Spec2Model ----
(***************************************************************************)
(* Reconciliation handlers (Create / Read / Update / Delete) of the AWS    *)
(* provider resources kept in this repository: ECR repository, API         *)
(* Gateway v2 API, RAM resource share, Lightsail container service, FSx    *)
(* ONTAP volume and ECS task set.                                          *)
(*                                                                         *)
(* One behaviour follows one resource instance.  A handler runs as a       *)
(* sequence of steps; a step is one remote call together with the local    *)
(* code that follows it up to the next remote call.  The remote API is the *)
(* environment: every response is drawn from a small set.                  *)
(***************************************************************************)
EXTENDS Integers, Sequences, FiniteSets, TLC

VARIABLES
    partition,   \* meta.(*conns.AWSClient).Partition
    rtype,       \* resource type this behaviour reconciles
    defaultTags, \* meta.(*conns.AWSClient).DefaultTagsConfig
    ignoreKeys,  \* meta.(*conns.AWSClient).IgnoreTagsConfig
    cfg,         \* configuration of the resource (desired state)
    d,           \* attributes of *schema.ResourceData
    id,          \* d.Id()
    isNew,       \* d.IsNewResource()
    op,          \* handler the orchestrator invoked
    pc,          \* position inside the running handler
    inputTags,   \* input.Tags of the create request
    calls,       \* remote calls issued by the running invocation
    lookup,      \* result of the latest lookup (finder or describe)
    polls,       \* probes already made by the running retry / wait
    diags,       \* diagnostics the invocation returns
    outcome,     \* "none" | "running" | "returned" | "panic"
    cidrBlocks   \* CIDR blocks the Route 53 location holds at the service

vars == << partition, rtype, defaultTags, ignoreKeys, cfg, d, id, isNew, op,
           pc, inputTags, calls, lookup, polls, diags, outcome, cidrBlocks >>

----------------------------------------------------------------------------
(* Bounds *)

MaxRecords == 2        \* records one describe response may carry
PropagationPolls == 2  \* probes that fit into propagationTimeout
DeletePolls == 2       \* probes that fit into the delete timeout
CreatePolls == 2       \* attempts that fit into the create retry budget
StablePolls == 2       \* probes that fit into wait_until_stable_timeout

----------------------------------------------------------------------------
(* Errors *)

NoErr == [kind |-> "nil", code |-> "", msg |-> ""]
AwsErrMsg(c, m) == [kind |-> "aws", code |-> c, msg |-> m]
AwsErr(c) == AwsErrMsg(c, "")

\* partition-unsupported signature of the remote API
ISOUnsupportedCode == "UnsupportedOperation"
\* any remote error no handler special-cases
OtherCode == "InternalFailure"

\* tfawserr.ErrCodeEquals: the error chain holds an AWS error with one of codes
ErrCodeEquals(err, codes) == err.code \in codes
\* tfawserr.ErrMessageContains
ErrMessageContains(err, code, m) == err.code = code /\ err.msg = m

\* resource.NotFoundError{LastError: last}
NotFoundError(last) == [kind |-> "NotFoundError", code |-> last.code, msg |-> last.msg]
\* tfresource.NewEmptyResultError
EmptyResultError == [kind |-> "EmptyResultError", code |-> "", msg |-> ""]
\* tfresource.NewTooManyResultsError
TooManyResultsError == [kind |-> "TooManyResultsError", code |-> "", msg |-> ""]
\* the waiter's error when the deadline passed; it carries the last error
TimedOutError(last) == [kind |-> "TimedOut", code |-> last.code, msg |-> last.msg]
\* the waiter's error when the resource is still found
ErrFoundResource == [kind |-> "FoundResource", code |-> "", msg |-> ""]
\* fmt.Errorf without a wrapped error
FmtError(m) == [kind |-> "fmt", code |-> "", msg |-> m]

\* tfresource.NotFound
NotFound(err) == err.kind \in {"NotFoundError", "EmptyResultError"}

\* verify.ErrorISOUnsupported
ErrorISOUnsupported(p, err) == p # "aws" /\ ErrCodeEquals(err, {ISOUnsupportedCode})

----------------------------------------------------------------------------
(* Identities and names are strings of characters *)

EmptyId == << >>
RepoName == << "r" >>
RepoNames == { << "r" >>, << "r", "2" >> }

----------------------------------------------------------------------------
(* Diagnostics *)

Diag(sev, summary, rid, err) ==
    [severity |-> sev, summary |-> summary, id |-> rid, err |-> err]

\* sdkdiag.AppendErrorf / diag.Errorf
AppendErrorf(ds, summary, rid, err) == Append(ds, Diag("error", summary, rid, err))

HasError(ds) == \E i \in 1..Len(ds) : ds[i].severity = "error"

----------------------------------------------------------------------------
(* Tags *)

AWSTagKeys == { "aws:k" }
UserTagKeys == { "env", "team" }
TagKeys == AWSTagKeys \cup UserTagKeys
TagVals == { "a", "b" }

EmptyTags == [k \in {} |-> "a"]

\* the tag maps of at most one key drawn from keys
TagMaps(keys) ==
    { EmptyTags } \cup { [x \in { k } |-> v] : k \in keys, v \in TagVals }

Restrict(m, keys) == [k \in (DOMAIN m) \cap keys |-> m[k]]

\* KeyValueTags.IgnoreAWS: drops the keys with the reserved "aws:" prefix
IgnoreAWS(m) == Restrict(m, (DOMAIN m) \ AWSTagKeys)

\* KeyValueTags.IgnoreConfig: drops the keys the ignore-tags configuration names
IgnoreConfig(m, ignored) == Restrict(m, (DOMAIN m) \ ignored)

\* DefaultConfig.MergeTags: default tags overlaid by the resource's own tags
MergeTags(dflt, own) ==
    [k \in (DOMAIN dflt) \cup (DOMAIN own) |->
        IF k \in DOMAIN own THEN own[k] ELSE dflt[k]]

\* KeyValueTags.RemoveDefaultConfig: drops the entries equal to a default tag
RemoveDefaultConfig(m, dflt) ==
    Restrict(m, { k \in DOMAIN m : ~(k \in DOMAIN dflt /\ dflt[k] = m[k]) })

\* the tags a remote resource may carry
RemoteTagMaps ==
    TagMaps(TagKeys) \cup { [k \in { "env", "team" } |-> IF k = "env" THEN "a" ELSE "b"] }

\* KeyValueTags.Removed: the entries of old whose key new does not have
Removed(old, new) == Restrict(old, (DOMAIN old) \ (DOMAIN new))

\* KeyValueTags.Updated: the entries of new that old lacks or holds with
\* another value
Updated(old, new) ==
    Restrict(new, { k \in DOMAIN new : k \notin DOMAIN old \/ old[k] # new[k] })

\* verify.SetTagsDiff: the planned value of tags_all
SetTagsDiff(dflt, own, ignored) == IgnoreConfig(MergeTags(dflt, own), ignored)

\* a Read that leaves out the ignore-tags configuration
ReadTags_IgnoreConfigSkipped(remote, ignored, dflt) ==
    [tags |-> RemoveDefaultConfig(IgnoreAWS(remote), dflt), tags_all |-> IgnoreAWS(remote)]

\* the two tag attributes a Read sets from the tags the remote returned
ReadTags(remote, ignored, dflt) ==
    LET tags == IgnoreConfig(IgnoreAWS(remote), ignored)
    IN  [tags |-> RemoveDefaultConfig(tags, dflt), tags_all |-> tags]

\* a Create that lets the default tags win over the tags of the resource
CreateTags_DefaultsWin(dflt, own) ==
    MergeTags(own, dflt)

\* the tags of a Create:
\* defaultTagsConfig.MergeTags(tftags.New(ctx, d.Get("tags")))
CreateTags(dflt, own) ==
    MergeTags(dflt, own)

\* input.Tags: nil, or the list built by Tags()
NilTags == [nil |-> TRUE, m |-> EmptyTags]
SomeTags(m) == [nil |-> FALSE, m |-> m]

\* lines "if len(tags) > 0 { input.Tags = Tags(tags.IgnoreAWS()) }"
CreateInputTags(tags) ==
    IF Cardinality(DOMAIN tags) > 0 THEN SomeTags(IgnoreAWS(tags)) ELSE NilTags

----------------------------------------------------------------------------
(* Eventual-consistency finder of the ECR repository *)

\* a record of a describe response: a nil pointer, or name, status and tags
Record(n, st, t) == [nil |-> FALSE, name |-> n, status |-> st, tags |-> t]
NilRepo == [nil |-> TRUE, name |-> EmptyId, status |-> "", tags |-> EmptyTags]
Repo(n) == Record(n, "", EmptyTags)

RECURSIVE SeqsUpTo(_, _)
SeqsUpTo(S, n) ==
    IF n = 0 THEN { << >> }
    ELSE LET shorter == SeqsUpTo(S, n - 1)
         IN shorter \cup { Append(s, x) : s \in { t \in shorter : Len(t) = n - 1 }, x \in S }

\* what DescribeRepositories may answer
DescribeRepositoriesResponses ==
    { [err |-> AwsErr(c), repos |-> << >>] :
          c \in { "RepositoryNotFoundException", OtherCode } }
    \cup { [err |-> NoErr, repos |-> s] :
          s \in SeqsUpTo({ NilRepo } \cup { Repo(n) : n \in RepoNames }, MaxRecords) }

\* FindRepository passing the remote not-found error on unwrapped
FindRepository_RawNotFound(resp) ==
    IF resp.err # NoErr
    THEN [out |-> NilRepo, err |-> resp.err]
    ELSE IF Len(resp.repos) = 0 \/ resp.repos[1].nil
    THEN [out |-> NilRepo, err |-> EmptyResultError]
    ELSE IF Len(resp.repos) > 1
    THEN [out |-> NilRepo, err |-> TooManyResultsError]
    ELSE [out |-> resp.repos[1], err |-> NoErr]

\* FindRepository taking several records for an empty result
FindRepository_TooManyAsEmpty(resp) ==
    IF ErrCodeEquals(resp.err, { "RepositoryNotFoundException" })
    THEN [out |-> NilRepo, err |-> NotFoundError(resp.err)]
    ELSE IF resp.err # NoErr
    THEN [out |-> NilRepo, err |-> resp.err]
    ELSE IF Len(resp.repos) # 1 \/ resp.repos[1].nil
    THEN [out |-> NilRepo, err |-> EmptyResultError]
    ELSE [out |-> resp.repos[1], err |-> NoErr]

FindRepository(resp) ==
    IF ErrCodeEquals(resp.err, { "RepositoryNotFoundException" })
    THEN [out |-> NilRepo, err |-> NotFoundError(resp.err)]
    ELSE IF resp.err # NoErr
    THEN [out |-> NilRepo, err |-> resp.err]
    ELSE IF Len(resp.repos) = 0 \/ resp.repos[1].nil
    THEN [out |-> NilRepo, err |-> EmptyResultError]
    ELSE IF Len(resp.repos) > 1
    THEN [out |-> NilRepo, err |-> TooManyResultsError]
    ELSE [out |-> resp.repos[1], err |-> NoErr]

\* FindRepositoryByName without the eventual-consistency check of the name
FindRepositoryByName_NoNameCheck(resp, name) ==
    FindRepository(resp)

FindRepositoryByName(resp, name) ==
    LET output == FindRepository(resp)
    IN  IF output.err # NoErr
        THEN [out |-> NilRepo, err |-> output.err]
        ELSE IF output.out.name # name
        THEN [out |-> NilRepo, err |-> NotFoundError(NoErr)]
        ELSE output

----------------------------------------------------------------------------
(* Retry / waiter engine *)

\* a retry loop without a deadline
RetryStep_NoDeadline(retryable, done, budget) ==
    IF ~retryable THEN "stop" ELSE "again"

\* One probe of a retry loop that allows budget probes: poll again, stop
\* with the probe's result, or give up because the deadline passed.
RetryStep(retryable, done, budget) ==
    IF ~retryable THEN "stop"
    ELSE IF done + 1 < budget THEN "again"
    ELSE "timeout"

\* tfresource.RetryWhenNewResourceNotFound
RetryWhenNewResourceNotFound(err, new, done) ==
    LET step == RetryStep(new /\ NotFound(err), done, PropagationPolls)
    IN  [step |-> step,
         err  |-> IF step = "timeout" THEN TimedOutError(err) ELSE err]

\* tfresource.RetryUntilNotFound
RetryUntilNotFound(err, done, budget) ==
    LET found == err = NoErr
        step == RetryStep(found, done, budget)
    IN  [step |-> step,
         err  |-> IF NotFound(err) THEN NoErr
                  ELSE IF ~found THEN err
                  ELSE IF step = "timeout" THEN TimedOutError(ErrFoundResource)
                  ELSE ErrFoundResource]

\* RetryWhen: f returned err, which the classifier calls retryable or not
RetryWhen(retryable, err, done, budget) ==
    LET step == RetryStep(retryable, done, budget)
    IN  [step |-> step,
         err  |-> IF step = "timeout" THEN TimedOutError(err) ELSE err]

\* what one status probe of a wait-until loop may observe
WaitProbes ==
    { [state |-> "reached", err |-> NoErr],
      [state |-> "pending", err |-> NoErr],
      [state |-> "failed", err |-> AwsErr(OtherCode)] }

\* a wait that reports neither a failed probe nor the deadline
WaitUntil_FailureIgnored(probe, done, budget) ==
    [step |-> RetryStep(probe.state = "pending", done, budget), err |-> NoErr]

\* wait-until: poll until the target state is reached, the probe fails or
\* the deadline passes
WaitUntil(probe, done, budget) ==
    LET step == RetryStep(probe.state = "pending", done, budget)
    IN  [step |-> step,
         err  |-> IF probe.state = "reached" THEN NoErr
                  ELSE IF probe.state = "failed" THEN probe.err
                  ELSE IF step = "timeout" THEN TimedOutError(ErrFoundResource)
                  ELSE NoErr]

\* what the probe of a deletion wait saw of the resource
Observed(probe) ==
    [out |-> IF probe.state = "pending" THEN Record(EmptyId, "DELETING", EmptyTags)
             ELSE NilRepo,
     err |-> IF probe.state = "reached" THEN NotFoundError(NoErr) ELSE probe.err,
     records |-> << >>,
     name |-> EmptyId]

----------------------------------------------------------------------------
(* State shared by the handlers *)

\* the ignore_tags key lists a provider may be configured with
IgnoreConfigs == { {}, { "team" } }

ResourceTypes == { "ecr", "apigatewayv2", "ram", "lightsail", "fsx", "ecs" }
Partitions == { "aws", "aws-iso" }

\* an identity that puts the service first
TaskSetFormatID_ServiceFirst(taskSetId, service, cluster) ==
    service \o << "," >> \o taskSetId \o << "," >> \o cluster

\* fmt.Sprintf("%s,%s,%s", taskSetId, service, cluster)
TaskSetFormatID(taskSetId, service, cluster) ==
    taskSetId \o << "," >> \o service \o << "," >> \o cluster

\* strings.Split
RECURSIVE Split(_, _)
Split(str, sep) ==
    LET at == { i \in 1..Len(str) : str[i] = sep }
    IN  IF at = {} THEN << str >>
        ELSE LET i == CHOOSE j \in at : \A k \in at : j <= k
             IN  << SubSeq(str, 1, i - 1) >> \o Split(SubSeq(str, i + 1, Len(str)), sep)

\* a parse that only counts the parts
TaskSetParseID_EmptyPartsAllowed(rid) ==
    LET parts == Split(rid, ",")
    IN  IF Len(parts) # 3
        THEN [taskSetId |-> << >>, service |-> << >>, cluster |-> << >>,
              err |-> FmtError("unexpected format of ID")]
        ELSE [taskSetId |-> parts[1], service |-> parts[2], cluster |-> parts[3],
              err |-> NoErr]

TaskSetParseID(rid) ==
    LET parts == Split(rid, ",")
    IN  IF Len(parts) # 3 \/ parts[1] = << >> \/ parts[2] = << >> \/ parts[3] = << >>
        THEN [taskSetId |-> << >>, service |-> << >>, cluster |-> << >>,
              err |-> FmtError("unexpected format of ID")]
        ELSE [taskSetId |-> parts[1], service |-> parts[2], cluster |-> parts[3],
              err |-> NoErr]

\* identity a resource of each type gets at create time
IdOf(t) ==
    IF t = "ecs" THEN TaskSetFormatID(<< "t" >>, << "s" >>, << "c" >>) ELSE RepoName

\* identities an import may have put into the state
ImportedIds(t) ==
    IF t = "ecs" THEN { IdOf(t), << "t", ",", ",", "c" >> } ELSE { IdOf(t) }

\* the result r of a lookup, with the records the remote returned and the
\* name that was asked for
Looked(r, records, name) ==
    [out |-> r.out, err |-> r.err, records |-> records, name |-> name]

NoLookup == Looked([out |-> NilRepo, err |-> NoErr], << >>, EmptyId)
EmptyData == [arn |-> "", tags |-> EmptyTags, tags_all |-> EmptyTags]

\* the log entry of one remote call
Call(api, tagged, err) ==
    [api |-> api, tagged |-> tagged, tags |-> EmptyTags, err |-> err]

\* the log entry of a remote call whose request carries the tag list input
TagCall(api, input, err) ==
    [api |-> api, tagged |-> ~input.nil, tags |-> input.m, err |-> err]

CallsOf(api) == { i \in 1..Len(calls) : calls[i].api = api }

\* the handler returns ds
Return(ds) ==
    /\ pc' = "done"
    /\ outcome' = "returned"
    /\ diags' = ds

\* the handler dies on a nil dereference or a failed type assertion
Panic ==
    /\ pc' = "done"
    /\ outcome' = "panic"
    /\ diags' = diags

\* the orchestrator forgets a resource whose Delete returned without error
Destroyed == op = "Delete" /\ pc = "done" /\ outcome = "returned" /\ ~HasError(diags)

Idle == pc = "done" /\ outcome # "panic" /\ ~Destroyed

\* the configuration of a handler that reads none of the attributes modelled
NoConfig ==
    [tags |-> EmptyTags, wait_until_stable |-> FALSE, is_disabled |-> FALSE,
     cors_empty |-> FALSE, changed |-> {}]

Init ==
    /\ partition \in Partitions
    /\ rtype \in ResourceTypes
    /\ defaultTags \in TagMaps({ "env" })
    /\ ignoreKeys \in IgnoreConfigs
    /\ cfg = NoConfig
    /\ d = EmptyData
    /\ id \in { EmptyId } \cup ImportedIds(rtype)
    /\ isNew = FALSE
    /\ op = "none"
    /\ pc = "done"
    /\ inputTags = NilTags
    /\ calls = << >>
    /\ lookup = NoLookup
    /\ polls = 0
    /\ diags = << >>
    /\ outcome = "none"
    /\ cidrBlocks = {}

\* schema.Resource invokes a handler on fresh per-invocation state
Invoke(o, first, new) ==
    /\ Idle
    /\ op' = o
    /\ pc' = first
    /\ isNew' = new
    /\ calls' = << >>
    /\ lookup' = NoLookup
    /\ polls' = 0
    /\ diags' = << >>
    /\ outcome' = "running"

\* resource types whose Create / Read handler the model covers
CreateTypes == { "ecr", "ecs", "ram", "fsx", "lightsail" }
ReadTypes == ResourceTypes

\* Create of a resource that has no identity yet; the handler merges the
\* tags and builds its request
Apply_Create ==
    /\ rtype \in CreateTypes
    /\ id = EmptyId
    /\ Invoke("Create", "Create.call", TRUE)
    /\ \E t \in TagMaps(UserTagKeys),
          w \in IF rtype = "ecs" THEN BOOLEAN ELSE { FALSE },
          dis \in IF rtype = "lightsail" THEN BOOLEAN ELSE { FALSE } :
          /\ cfg' = [tags |-> t, wait_until_stable |-> w, is_disabled |-> dis,
                     cors_empty |-> FALSE, changed |-> {}]
          /\ inputTags' = CreateInputTags(CreateTags(defaultTags, t))
    /\ UNCHANGED << cidrBlocks, partition, rtype, defaultTags, ignoreKeys, d, id >>

\* refresh of a tracked resource
Apply_Read ==
    /\ rtype \in ReadTypes
    /\ id # EmptyId
    /\ Invoke("Read", "Read.lookup", FALSE)
    /\ cfg' = NoConfig
    /\ inputTags' = NilTags
    /\ UNCHANGED << cidrBlocks, partition, rtype, defaultTags, ignoreKeys, d, id >>

\* destroy of a tracked resource
Apply_Delete ==
    /\ id # EmptyId
    /\ Invoke("Delete", "Delete.call", FALSE)
    /\ cfg' = NoConfig
    /\ inputTags' = NilTags
    /\ UNCHANGED << cidrBlocks, partition, rtype, defaultTags, ignoreKeys, d, id >>

----------------------------------------------------------------------------
(* ECR repository *)

\* must the tags be applied by a separate call after the create call?
RepositoryTagAfterCreate(input, tags, p) ==
    input.nil /\ Cardinality(DOMAIN tags) > 0 /\ p # "aws"

\* the retry decision without the test that the request carried tags
RepositoryCreateWithoutTags_Untagged(input, p, err) ==
    p # "aws" /\ ErrorISOUnsupported(p, err)

\* retry the create call without tags?
RepositoryCreateWithoutTags(input, p, err) ==
    ~input.nil /\ p # "aws" /\ ErrorISOUnsupported(p, err)

\* CreateRepository and the code after it
RepositoryCreate_Call ==
    /\ rtype = "ecr"
    /\ pc = "Create.call"
    /\ \E e \in { NoErr, AwsErr(ISOUnsupportedCode), AwsErr(OtherCode) } :
          /\ calls' = Append(calls, TagCall("CreateRepository", inputTags, e))
          /\ IF RepositoryCreateWithoutTags(inputTags, partition, e)
             THEN /\ inputTags' = NilTags
                  /\ UNCHANGED << id, pc, outcome, diags >>
             ELSE IF e # NoErr
             THEN /\ Return(AppendErrorf(diags, "creating ECR Repository", RepoName, e))
                  /\ UNCHANGED << id, inputTags >>
             ELSE /\ id' = RepoName
                  /\ pc' = IF RepositoryTagAfterCreate(inputTags,
                                   CreateTags(defaultTags, cfg.tags), partition)
                           THEN "Create.tag" ELSE "Read.lookup"
                  /\ UNCHANGED << inputTags, outcome, diags >>
    /\ UNCHANGED << cidrBlocks, partition, rtype, defaultTags, ignoreKeys, cfg, d, isNew, op,
                    lookup, polls >>

\* a Create that fails on every error of the tag call after create
RepositoryTagFailureIgnored_Never(own, p, err) ==
    FALSE

\* a Create that tolerates the unsupported tag call whatever tags are configured
RepositoryTagFailureIgnored_AnyTags(own, p, err) ==
    ErrorISOUnsupported(p, err)

\* is the failure of the tag call after create only logged?
RepositoryTagFailureIgnored(own, p, err) ==
    Cardinality(DOMAIN own) = 0 /\ ErrorISOUnsupported(p, err)

\* Read after the lookup returned err: drop from state, or go on to the record
RepositoryReadAfterLookup(err, new) ==
    IF ~new /\ NotFound(err) THEN "drop"
    ELSE IF err # NoErr THEN "panic"   \* outputRaw is nil: the type assertion fails
    ELSE "project"

\* one FindRepositoryByName probe inside RetryWhenNewResourceNotFound, and,
\* when the retry ends, the code up to the ListTags call
RepositoryRead_Find ==
    /\ rtype = "ecr"
    /\ pc = "Read.lookup"
    /\ \E resp \in DescribeRepositoriesResponses :
          LET r == FindRepositoryByName(resp, id)
              w == RetryWhenNewResourceNotFound(r.err, isNew, polls)
              next == RepositoryReadAfterLookup(w.err, isNew)
          IN  /\ calls' = Append(calls, Call("DescribeRepositories", FALSE, resp.err))
              /\ lookup' = Looked(r, resp.repos, id)
              /\ IF w.step = "again"
                 THEN /\ polls' = polls + 1
                      /\ UNCHANGED << id, d, pc, outcome, diags >>
                 ELSE /\ polls' = 0
                      /\ CASE next = "drop" ->
                                /\ id' = EmptyId
                                /\ Return(diags)
                                /\ d' = d
                           [] next = "panic" ->
                                /\ Panic
                                /\ UNCHANGED << id, d >>
                           [] OTHER ->
                                /\ d' = [d EXCEPT !.arn = "arn"]
                                /\ pc' = "Read.tags"
                                /\ UNCHANGED << id, outcome, diags >>
    /\ UNCHANGED << cidrBlocks, partition, rtype, defaultTags, ignoreKeys, cfg, isNew, op,
                    inputTags >>

\* a Read that fails on every tag-listing error
RepositoryReadAfterListTags_NoTolerance(p, err) ==
    IF err # NoErr THEN "error" ELSE "set"

\* Read after ListTags returned err: return with the tags as they are, fail,
\* or set the tag attributes
RepositoryReadAfterListTags(p, err) ==
    IF p # "aws" /\ ErrorISOUnsupported(p, err) THEN "keep"
    ELSE IF err # NoErr THEN "error"
    ELSE "set"

\* ListTags and the rest of resourceRepositoryRead
RepositoryRead_ListTags ==
    /\ rtype = "ecr"
    /\ pc = "Read.tags"
    /\ \E resp \in { [err |-> AwsErr(c), tags |-> EmptyTags] :
                        c \in { ISOUnsupportedCode, OtherCode } }
                   \cup { [err |-> NoErr, tags |-> t] : t \in RemoteTagMaps } :
          /\ calls' = Append(calls, Call("ListTagsForResource", FALSE, resp.err))
          /\ IF RepositoryReadAfterListTags(partition, resp.err) = "keep"
             THEN /\ Return(diags)
                  /\ d' = d
             ELSE IF RepositoryReadAfterListTags(partition, resp.err) = "error"
             THEN /\ Return(AppendErrorf(diags, "listing tags for ECR Repository", id, resp.err))
                  /\ d' = d
             ELSE LET t == ReadTags(resp.tags, ignoreKeys, defaultTags)
                  IN  /\ d' = [d EXCEPT !.tags = t.tags, !.tags_all = t.tags_all]
                      /\ Return(diags)
    /\ UNCHANGED << cidrBlocks, partition, rtype, defaultTags, ignoreKeys, cfg, id, isNew, op,
                    inputTags, lookup, polls >>

\* Delete without the branch for a repository that is not empty
RepositoryDeleteAfterCall_NoNotEmpty(err) ==
    IF ErrCodeEquals(err, { "RepositoryNotFoundException" }) THEN "gone"
    ELSE IF err # NoErr THEN "error"
    ELSE "wait"

\* DeleteRepository failed with err: what Delete does next
RepositoryDeleteAfterCall(err) ==
    IF ErrCodeEquals(err, { "RepositoryNotFoundException" }) THEN "gone"
    ELSE IF ErrCodeEquals(err, { "RepositoryNotEmptyException" }) THEN "notempty"
    ELSE IF err # NoErr THEN "error"
    ELSE "wait"

\* resourceRepositoryDelete: DeleteRepository and the code after it
RepositoryDelete_Call ==
    /\ rtype = "ecr"
    /\ pc = "Delete.call"
    /\ \E e \in { NoErr, AwsErr("RepositoryNotFoundException"),
                  AwsErr("RepositoryNotEmptyException"), AwsErr(OtherCode) } :
          LET next == RepositoryDeleteAfterCall(e)
          IN  /\ calls' = Append(calls, Call("DeleteRepository", FALSE, e))
              /\ CASE next = "gone" -> Return(diags)
                   [] next = "notempty" ->
                        Return(AppendErrorf(diags,
                            "ECR Repository not empty, consider using force_delete", id, e))
                   [] next = "error" ->
                        Return(AppendErrorf(diags, "deleting ECR Repository", id, e))
                   [] OTHER ->
                        /\ pc' = "Delete.wait"
                        /\ UNCHANGED << outcome, diags >>
    /\ UNCHANGED << cidrBlocks, partition, rtype, defaultTags, ignoreKeys, cfg, d, id, isNew,
                    op, inputTags, lookup, polls >>

\* the wait ended with err: the diagnostics Delete returns
RepositoryDeleteAfterWait(ds, rid, err) ==
    IF err # NoErr
    THEN AppendErrorf(ds, "waiting for ECR Repository delete", rid, err)
    ELSE ds

\* one FindRepositoryByName probe inside RetryUntilNotFound, and the code
\* after the wait
RepositoryDelete_Wait ==
    /\ rtype = "ecr"
    /\ pc = "Delete.wait"
    /\ \E resp \in DescribeRepositoriesResponses :
          LET r == FindRepositoryByName(resp, id)
              w == RetryUntilNotFound(r.err, polls, DeletePolls)
          IN  /\ calls' = Append(calls, Call("DescribeRepositories", FALSE, resp.err))
              /\ lookup' = Looked(r, resp.repos, id)
              /\ IF w.step = "again"
                 THEN /\ polls' = polls + 1
                      /\ UNCHANGED << pc, outcome, diags >>
                 ELSE /\ polls' = polls
                      /\ Return(RepositoryDeleteAfterWait(diags, id, w.err))
    /\ UNCHANGED << cidrBlocks, partition, rtype, defaultTags, ignoreKeys, cfg, d, id, isNew,
                    op, inputTags >>

----------------------------------------------------------------------------
(* ECS task set *)

LoadBalancerMsg == "does not have an associated load balancer"

TaskSetNotFoundCodes ==
    { "ClusterNotFoundException", "ServiceNotFoundException", "TaskSetNotFoundException" }

\* what CreateTaskSet may answer; taskSet tells whether output.TaskSet is set
CreateTaskSetResponses ==
    { [err |-> e, taskSet |-> FALSE] :
          e \in { AwsErr(c) : c \in TaskSetNotFoundCodes \cup { ISOUnsupportedCode, OtherCode } }
                \cup { AwsErrMsg("InvalidParameterException", LoadBalancerMsg) } }
    \cup { [err |-> NoErr, taskSet |-> b] : b \in BOOLEAN }

\* a classifier that calls every error transient
TaskSetCreateRetryable_Always(err) ==
    err # NoErr

\* the classifier retryTaskSetCreate hands to RetryWhen
TaskSetCreateRetryable(err) ==
    \/ ErrCodeEquals(err, TaskSetNotFoundCodes)
    \/ ErrMessageContains(err, "InvalidParameterException", LoadBalancerMsg)

\* retryTaskSetCreate after RetryWhen returned err for the response resp:
\* outputRaw is nil when err is set
retryTaskSetCreate(resp, err) ==
    IF err # NoErr \/ ~resp.taskSet
    THEN [ok |-> FALSE, err |-> FmtError("error creating ECS TaskSet: empty output")]
    ELSE [ok |-> TRUE, err |-> err]

\* retry the create call without tags?
TaskSetCreateWithoutTags(input, p, err) ==
    ~input.nil /\ ErrorISOUnsupported(p, err)

\* must the tags be applied by a separate call after the create call?
TaskSetTagAfterCreate(input, tags) ==
    input.nil /\ Cardinality(DOMAIN tags) > 0

\* is the failure of the tag call after create only logged?
TaskSetTagFailureIgnored(own, p, err) ==
    Cardinality(DOMAIN own) = 0 /\ ErrorISOUnsupported(p, err)

\* the step after the task set is created and, if asked for, stable
TaskSetAfterStable(input, tags) ==
    IF TaskSetTagAfterCreate(input, tags) THEN "Create.tag" ELSE "Read.lookup"

\* a Create that never waits for the task set to be stable
TaskSetAfterCreate_NoWait(wait, input, tags) ==
    TaskSetAfterStable(input, tags)

\* resourceTaskSetCreate after d.SetId: "if d.Get("wait_until_stable").(bool)"
TaskSetAfterCreate(wait, input, tags) ==
    IF wait THEN "Create.stable" ELSE TaskSetAfterStable(input, tags)

\* one CreateTaskSet attempt inside retryTaskSetCreate, and, when the retry
\* ends, the code of resourceTaskSetCreate up to the next remote call
TaskSetCreate_Call ==
    /\ rtype = "ecs"
    /\ pc = "Create.call"
    /\ \E resp \in CreateTaskSetResponses :
          LET w == RetryWhen(TaskSetCreateRetryable(resp.err), resp.err, polls, CreatePolls)
              r == retryTaskSetCreate(resp, w.err)
          IN  /\ calls' = Append(calls, TagCall("CreateTaskSet", inputTags, resp.err))
              /\ IF w.step = "again"
                 THEN /\ polls' = polls + 1
                      /\ UNCHANGED << id, pc, inputTags, outcome, diags >>
                 ELSE /\ polls' = 0
                      /\ IF TaskSetCreateWithoutTags(inputTags, partition, r.err)
                         THEN /\ inputTags' = NilTags
                              /\ UNCHANGED << id, pc, outcome, diags >>
                         ELSE IF r.err # NoErr
                         THEN /\ Return(AppendErrorf(diags, "creating ECS TaskSet", id, r.err))
                              /\ UNCHANGED << id, inputTags >>
                         ELSE /\ id' = TaskSetFormatID(<< "t" >>, << "s" >>, << "c" >>)
                              /\ pc' = TaskSetAfterCreate(cfg.wait_until_stable, inputTags,
                                                CreateTags(defaultTags, cfg.tags))
                              /\ UNCHANGED << inputTags, outcome, diags >>
    /\ UNCHANGED << cidrBlocks, partition, rtype, defaultTags, ignoreKeys, cfg, d, isNew, op, lookup >>

\* what the probe of waitTaskSetStable saw of the task set
StabilityObserved(probe) ==
    Looked([out |-> IF probe.state = "failed" THEN NilRepo
                    ELSE Record(<< "t" >>,
                                IF probe.state = "reached" THEN "STEADY_STATE"
                                ELSE "STABILIZING", EmptyTags),
            err |-> probe.err], << >>, EmptyId)

\* one probe of waitTaskSetStable, and the code after the wait
TaskSetCreate_WaitStable ==
    /\ rtype = "ecs"
    /\ pc = "Create.stable"
    /\ \E probe \in WaitProbes :
          LET w == WaitUntil(probe, polls, StablePolls)
          IN  /\ calls' = Append(calls, Call("DescribeTaskSets", FALSE, probe.err))
              /\ lookup' = StabilityObserved(probe)
              /\ IF w.step = "again"
                 THEN /\ polls' = polls + 1
                      /\ UNCHANGED << pc, outcome, diags >>
                 ELSE /\ polls' = 0
                      /\ IF w.err # NoErr
                         THEN Return(AppendErrorf(diags,
                                  "waiting for ECS Task Set to be stable", id, w.err))
                         ELSE /\ pc' = TaskSetAfterStable(inputTags,
                                           CreateTags(defaultTags, cfg.tags))
                              /\ UNCHANGED << outcome, diags >>
    /\ UNCHANGED << cidrBlocks, partition, rtype, defaultTags, ignoreKeys, cfg, d, id, isNew,
                    op, inputTags >>

\* UpdateTags(arn, nil, tags) after the create call of an ECR repository or
\* an ECS task set, and the code after it
Create_Tag ==
    /\ rtype \in { "ecr", "ecs" }
    /\ pc = "Create.tag"
    /\ \E e \in { NoErr, AwsErr(ISOUnsupportedCode), AwsErr(OtherCode) } :
          LET ignored == IF rtype = "ecr"
                         THEN RepositoryTagFailureIgnored(cfg.tags, partition, e)
                         ELSE TaskSetTagFailureIgnored(cfg.tags, partition, e)
              summary == IF rtype = "ecr"
                         THEN "adding tags after create for ECR Repository"
                         ELSE "ECS tagging failed adding tags after create for Task Set"
              input == SomeTags(IgnoreAWS(CreateTags(defaultTags, cfg.tags)))
          IN  /\ calls' = Append(calls, TagCall("TagResource", input, e))
              /\ IF ignored
                 THEN /\ pc' = "Read.lookup"
                      /\ UNCHANGED << outcome, diags >>
                 ELSE IF e # NoErr
                 THEN Return(AppendErrorf(diags, summary, id, e))
                 ELSE /\ pc' = "Read.lookup"
                      /\ UNCHANGED << outcome, diags >>
    /\ UNCHANGED << cidrBlocks, partition, rtype, defaultTags, ignoreKeys, cfg, d, id, isNew,
                    op, inputTags, lookup, polls >>

\* what DescribeTaskSets may answer
DescribeTaskSetsResponses ==
    { [err |-> AwsErr(c), taskSets |-> << >>] :
          c \in TaskSetNotFoundCodes \cup { ISOUnsupportedCode, OtherCode } }
    \cup { [err |-> NoErr, taskSets |-> ts] :
          ts \in { << >> } \cup
                { << Record(<< "t" >>, "ACTIVE", t) >> \o rest :
                      t \in RemoteTagMaps,
                      rest \in SeqsUpTo({ Record(<< "t" >>, "DRAINING", EmptyTags) },
                                        MaxRecords - 1) } }

\* resourceTaskSetRead after the first DescribeTaskSets call
TaskSetReadAfterFirstDescribe(resp, new, p) ==
    IF ~new /\ ErrCodeEquals(resp.err, TaskSetNotFoundCodes) THEN "drop"
    ELSE IF ErrorISOUnsupported(p, resp.err) THEN "again"
    ELSE "check"

\* resourceTaskSetRead once it holds the final describe response
TaskSetReadAfterDescribe(resp, new) ==
    IF resp.err # NoErr THEN "error"
    ELSE IF Len(resp.taskSets) = 0
    THEN IF new THEN "empty" ELSE "drop"
    ELSE "project"

\* the describe response seen as the result of a lookup
TaskSetLookup(resp) ==
    Looked([out |-> IF Len(resp.taskSets) = 0 THEN NilRepo ELSE resp.taskSets[1],
            err |-> IF resp.err = NoErr /\ Len(resp.taskSets) = 0
                    THEN EmptyResultError ELSE resp.err],
           resp.taskSets, EmptyId)

\* the tail of resourceTaskSetRead, from the check of err on
TaskSetReadTail(resp) ==
    LET next == TaskSetReadAfterDescribe(resp, isNew)
    IN  CASE next = "error" ->
               /\ Return(AppendErrorf(diags, "reading ECS Task Set", id, resp.err))
               /\ UNCHANGED << id, d >>
          [] next = "empty" ->
               /\ Return(AppendErrorf(diags, "reading ECS Task Set", id,
                      FmtError("empty output after creation")))
               /\ UNCHANGED << id, d >>
          [] next = "drop" ->
               /\ id' = EmptyId
               /\ Return(diags)
               /\ d' = d
          [] OTHER ->
               LET t == ReadTags(resp.taskSets[1].tags, ignoreKeys, defaultTags)
               IN  /\ d' = [arn |-> "arn", tags |-> t.tags, tags_all |-> t.tags_all]
                   /\ Return(diags)
                   /\ id' = id

\* TaskSetParseID, DescribeTaskSets including the tags, and the code after it
TaskSetRead_Describe ==
    /\ rtype = "ecs"
    /\ pc = "Read.lookup"
    /\ IF TaskSetParseID(id).err # NoErr
       THEN /\ Return(AppendErrorf(diags, "reading ECS Task Set", id, TaskSetParseID(id).err))
            /\ UNCHANGED << id, d, calls, lookup >>
       ELSE \E resp \in DescribeTaskSetsResponses :
               LET next == TaskSetReadAfterFirstDescribe(resp, isNew, partition)
               IN  /\ calls' = Append(calls, Call("DescribeTaskSets", TRUE, resp.err))
                   /\ lookup' = TaskSetLookup(resp)
                   /\ CASE next = "drop" ->
                             /\ id' = EmptyId
                             /\ Return(diags)
                             /\ d' = d
                        [] next = "again" ->
                             /\ pc' = "Read.retry"
                             /\ UNCHANGED << id, d, outcome, diags >>
                        [] OTHER -> TaskSetReadTail(resp)
    /\ UNCHANGED << cidrBlocks, partition, rtype, defaultTags, ignoreKeys, cfg, isNew, op,
                    inputTags, polls >>

\* DescribeTaskSets without the tags, and the code after it
TaskSetRead_DescribeWithoutTags ==
    /\ rtype = "ecs"
    /\ pc = "Read.retry"
    /\ \E resp \in DescribeTaskSetsResponses :
          /\ calls' = Append(calls, Call("DescribeTaskSets", FALSE, resp.err))
          /\ lookup' = TaskSetLookup(resp)
          /\ TaskSetReadTail(resp)
    /\ UNCHANGED << cidrBlocks, partition, rtype, defaultTags, ignoreKeys, cfg, isNew, op,
                    inputTags, polls >>

\* DeleteTaskSet failed with err: what Delete does next
TaskSetDeleteAfterCall(err) ==
    IF ErrCodeEquals(err, { "TaskSetNotFoundException" }) THEN "gone"
    ELSE IF err # NoErr THEN "error"
    ELSE "wait"

\* TaskSetParseID, DeleteTaskSet and the code after it
TaskSetDelete_Call ==
    /\ rtype = "ecs"
    /\ pc = "Delete.call"
    /\ IF TaskSetParseID(id).err # NoErr
       THEN /\ Return(AppendErrorf(diags, "deleting ECS Task Set", id, TaskSetParseID(id).err))
            /\ calls' = calls
       ELSE \E e \in { NoErr, AwsErr("TaskSetNotFoundException"), AwsErr(OtherCode) } :
               LET next == TaskSetDeleteAfterCall(e)
               IN  /\ calls' = Append(calls, Call("DeleteTaskSet", FALSE, e))
                   /\ CASE next = "gone" -> Return(diags)
                        [] next = "error" ->
                             Return(AppendErrorf(diags, "deleting ECS Task Set", id, e))
                        [] OTHER ->
                             /\ pc' = "Delete.wait"
                             /\ UNCHANGED << outcome, diags >>
    /\ UNCHANGED << cidrBlocks, partition, rtype, defaultTags, ignoreKeys, cfg, d, id, isNew,
                    op, inputTags, lookup, polls >>

\* what one probe of waitTaskSetDeleted may observe
TaskSetDeletedProbes ==
    WaitProbes \cup { [state |-> "failed", err |-> AwsErr("TaskSetNotFoundException")] }

\* waitTaskSetDeleted ended with err: the diagnostics Delete returns
TaskSetDeleteAfterWait(ds, rid, err) ==
    IF err # NoErr /\ ~ErrCodeEquals(err, { "TaskSetNotFoundException" })
    THEN AppendErrorf(ds, "deleting ECS Task Set: waiting for completion", rid, err)
    ELSE ds

\* one probe of waitTaskSetDeleted, and the code after the wait
TaskSetDelete_Wait ==
    /\ rtype = "ecs"
    /\ pc = "Delete.wait"
    /\ \E probe \in TaskSetDeletedProbes :
          LET w == WaitUntil(probe, polls, DeletePolls)
          IN  /\ calls' = Append(calls, Call("DescribeTaskSets", FALSE, probe.err))
              /\ lookup' = Observed(probe)
              /\ IF w.step = "again"
                 THEN /\ polls' = polls + 1
                      /\ UNCHANGED << pc, outcome, diags >>
                 ELSE /\ polls' = polls
                      /\ Return(TaskSetDeleteAfterWait(diags, id, w.err))
    /\ UNCHANGED << cidrBlocks, partition, rtype, defaultTags, ignoreKeys, cfg, d, id, isNew,
                    op, inputTags >>

----------------------------------------------------------------------------
(* RAM resource share *)

\* what FindResourceShareOwnerSelfByARN may return: the finder's three-way
\* classification, the not-found kind carrying the remote error code if any
ResourceShareLookups ==
    { [out |-> NilRepo, err |-> e] :
          e \in { NotFoundError(AwsErr("UnknownResourceException")), EmptyResultError,
                  TooManyResultsError, AwsErr(OtherCode) } }
    \cup { [out |-> Record(RepoName, st, t), err |-> NoErr] :
          st \in { "ACTIVE", "PENDING" }, t \in RemoteTagMaps }

\* a Read that drops a share that is not active, new or not
ResourceShareReadAfterLookup_NewDroppedToo(r, new) ==
    IF ~new /\ ErrCodeEquals(r.err, { "UnknownResourceException" }) THEN "drop"
    ELSE IF r.err # NoErr THEN "error"
    ELSE IF r.out.status # "ACTIVE" THEN "drop"
    ELSE "project"

\* resourceResourceShareRead after the lookup
ResourceShareReadAfterLookup(r, new) ==
    IF ~new /\ ErrCodeEquals(r.err, { "UnknownResourceException" }) THEN "drop"
    ELSE IF r.err # NoErr THEN "error"
    ELSE IF ~new /\ r.out.status # "ACTIVE" THEN "drop"
    ELSE "project"

\* FindResourceShareOwnerSelfByARN and the code up to the permissions call
ResourceShareRead_Find ==
    /\ rtype = "ram"
    /\ pc = "Read.lookup"
    /\ \E r \in ResourceShareLookups :
          LET next == ResourceShareReadAfterLookup(r, isNew)
          IN  /\ calls' = Append(calls, Call("GetResourceShares", FALSE, r.err))
              /\ lookup' = Looked(r, << >>, id)
              /\ CASE next = "drop" ->
                        /\ id' = EmptyId
                        /\ Return(diags)
                        /\ d' = d
                   [] next = "error" ->
                        /\ Return(AppendErrorf(diags, "reading RAM Resource Share", id, r.err))
                        /\ UNCHANGED << id, d >>
                   [] OTHER ->
                        LET t == ReadTags(r.out.tags, ignoreKeys, defaultTags)
                        IN  /\ d' = [arn |-> "arn", tags |-> t.tags,
                                     tags_all |-> t.tags_all]
                            /\ pc' = "Read.permissions"
                            /\ UNCHANGED << id, outcome, diags >>
    /\ UNCHANGED << cidrBlocks, partition, rtype, defaultTags, ignoreKeys, cfg, isNew, op,
                    inputTags, polls >>

\* ListResourceSharePermissions and the rest of resourceResourceShareRead
ResourceShareRead_ListPermissions ==
    /\ rtype = "ram"
    /\ pc = "Read.permissions"
    /\ \E e \in { NoErr, AwsErr(OtherCode) } :
          /\ calls' = Append(calls, Call("ListResourceSharePermissions", FALSE, e))
          /\ IF e # NoErr
             THEN Return(AppendErrorf(diags, "listing RAM Resource Share permissions", id, e))
             ELSE Return(diags)
    /\ UNCHANGED << cidrBlocks, partition, rtype, defaultTags, ignoreKeys, cfg, d, id, isNew,
                    op, inputTags, lookup, polls >>

\* CreateResourceShare and the code after it
ResourceShareCreate_Call ==
    /\ rtype = "ram"
    /\ pc = "Create.call"
    /\ \E e \in { NoErr, AwsErr(OtherCode) } :
          /\ calls' = Append(calls, TagCall("CreateResourceShare", inputTags, e))
          /\ IF e # NoErr
             THEN /\ Return(AppendErrorf(diags, "creating RAM Resource Share", RepoName, e))
                  /\ id' = id
             ELSE /\ id' = IdOf("ram")
                  /\ pc' = "Create.active"
                  /\ UNCHANGED << outcome, diags >>
    /\ UNCHANGED << cidrBlocks, partition, rtype, defaultTags, ignoreKeys, cfg, d, isNew, op,
                    inputTags, lookup, polls >>

\* one probe of WaitResourceShareOwnedBySelfActive, and the code after the wait
ResourceShareCreate_WaitActive ==
    /\ rtype = "ram"
    /\ pc = "Create.active"
    /\ \E probe \in WaitProbes :
          LET w == WaitUntil(probe, polls, CreatePolls)
          IN  /\ calls' = Append(calls, Call("GetResourceShares", FALSE, probe.err))
              /\ IF w.step = "again"
                 THEN /\ polls' = polls + 1
                      /\ UNCHANGED << pc, outcome, diags >>
                 ELSE /\ polls' = 0
                      /\ IF w.err # NoErr
                         THEN Return(AppendErrorf(diags,
                                  "waiting for RAM Resource Share to become ready", id, w.err))
                         ELSE /\ pc' = "Read.lookup"
                              /\ UNCHANGED << outcome, diags >>
    /\ UNCHANGED << cidrBlocks, partition, rtype, defaultTags, ignoreKeys, cfg, d, id, isNew,
                    op, inputTags, lookup >>

\* Delete without the branch for a resource that is gone already
DeleteAfterCall_NotFoundIsError(err, notFoundCode) ==
    IF err # NoErr THEN "error" ELSE "wait"

\* a delete call failed with err: gone already, an error, or wait for deletion
DeleteAfterCall(err, notFoundCode) ==
    IF ErrCodeEquals(err, { notFoundCode }) THEN "gone"
    ELSE IF err # NoErr THEN "error"
    ELSE "wait"

\* the responses of a delete call whose not-found code is notFoundCode
DeleteResponses(notFoundCode) == { NoErr, AwsErr(notFoundCode), AwsErr(OtherCode) }

\* Delete dropping the error of the deletion wait
DeleteAfterWait_ErrorDropped(ds, summary, rid, err) ==
    ds

\* the deletion wait ended with err: the diagnostics Delete returns
DeleteAfterWait(ds, summary, rid, err) ==
    IF err # NoErr THEN AppendErrorf(ds, summary, rid, err) ELSE ds

\* resourceResourceShareDelete: DeleteResourceShare and the code after it
ResourceShareDelete_Call ==
    /\ rtype = "ram"
    /\ pc = "Delete.call"
    /\ \E e \in DeleteResponses("UnknownResourceException") :
          LET next == DeleteAfterCall(e, "UnknownResourceException")
          IN  /\ calls' = Append(calls, Call("DeleteResourceShare", FALSE, e))
              /\ CASE next = "gone" -> Return(diags)
                   [] next = "error" ->
                        Return(AppendErrorf(diags, "deleting RAM Resource Share", id, e))
                   [] OTHER ->
                        /\ pc' = "Delete.wait"
                        /\ UNCHANGED << outcome, diags >>
    /\ UNCHANGED << cidrBlocks, partition, rtype, defaultTags, ignoreKeys, cfg, d, id, isNew,
                    op, inputTags, lookup, polls >>

\* one probe of WaitResourceShareOwnedBySelfDeleted, and the code after it
ResourceShareDelete_Wait ==
    /\ rtype = "ram"
    /\ pc = "Delete.wait"
    /\ \E probe \in WaitProbes :
          LET w == WaitUntil(probe, polls, DeletePolls)
          IN  /\ calls' = Append(calls, Call("GetResourceShares", FALSE, probe.err))
              /\ lookup' = Observed(probe)
              /\ IF w.step = "again"
                 THEN /\ polls' = polls + 1
                      /\ UNCHANGED << pc, outcome, diags >>
                 ELSE /\ polls' = polls
                      /\ Return(DeleteAfterWait(diags,
                             "waiting for RAM Resource Share delete", id, w.err))
    /\ UNCHANGED << cidrBlocks, partition, rtype, defaultTags, ignoreKeys, cfg, d, id, isNew,
                    op, inputTags >>

----------------------------------------------------------------------------
(* FSx ONTAP volume *)

\* resourceOntapVolumeDelete: DeleteVolume and the code after it
OntapVolumeDelete_Call ==
    /\ rtype = "fsx"
    /\ pc = "Delete.call"
    /\ \E e \in DeleteResponses("VolumeNotFound") :
          LET next == DeleteAfterCall(e, "VolumeNotFound")
          IN  /\ calls' = Append(calls, Call("DeleteVolume", FALSE, e))
              /\ CASE next = "gone" -> Return(diags)
                   [] next = "error" ->
                        Return(AppendErrorf(diags, "deleting FSx ONTAP Volume", id, e))
                   [] OTHER ->
                        /\ pc' = "Delete.wait"
                        /\ UNCHANGED << outcome, diags >>
    /\ UNCHANGED << cidrBlocks, partition, rtype, defaultTags, ignoreKeys, cfg, d, id, isNew,
                    op, inputTags, lookup, polls >>

\* one probe of waitVolumeDeleted, and the code after the wait
OntapVolumeDelete_Wait ==
    /\ rtype = "fsx"
    /\ pc = "Delete.wait"
    /\ \E probe \in WaitProbes :
          LET w == WaitUntil(probe, polls, DeletePolls)
          IN  /\ calls' = Append(calls, Call("DescribeVolumes", FALSE, probe.err))
              /\ lookup' = Observed(probe)
              /\ IF w.step = "again"
                 THEN /\ polls' = polls + 1
                      /\ UNCHANGED << pc, outcome, diags >>
                 ELSE /\ polls' = polls
                      /\ Return(DeleteAfterWait(diags,
                             "waiting for FSx ONTAP Volume delete", id, w.err))
    /\ UNCHANGED << cidrBlocks, partition, rtype, defaultTags, ignoreKeys, cfg, d, id, isNew,
                    op, inputTags >>

\* what a finder built on the describe call of a service may return: the
\* record, or one of the finder's error kinds; notFoundCode is the code the
\* service answers for a resource it does not have
FinderLookups(notFoundCode) ==
    { [out |-> NilRepo, err |-> e] :
          e \in { NotFoundError(AwsErr(notFoundCode)), EmptyResultError, AwsErr(OtherCode) } }
    \cup { [out |-> Record(RepoName, "ACTIVE", t), err |-> NoErr] : t \in RemoteTagMaps }

\* a Read that takes every failed lookup for an absent resource
ReadAfterLookup_DropOnAnyError(err, new) ==
    IF ~new /\ err # NoErr THEN "drop"
    ELSE IF err # NoErr THEN "error"
    ELSE "project"

\* Read after the finder returned err: drop from state, fail, or go on to
\* the record (FSx volume and Lightsail container service)
ReadAfterLookup(err, new) ==
    IF ~new /\ NotFound(err) THEN "drop"
    ELSE IF err # NoErr THEN "error"
    ELSE "project"

\* CreateVolume and the code after it
OntapVolumeCreate_Call ==
    /\ rtype = "fsx"
    /\ pc = "Create.call"
    /\ \E e \in { NoErr, AwsErr(OtherCode) } :
          /\ calls' = Append(calls, TagCall("CreateVolume", inputTags, e))
          /\ IF e # NoErr
             THEN /\ Return(AppendErrorf(diags, "creating FSx Volume", EmptyId, e))
                  /\ id' = id
             ELSE /\ id' = IdOf("fsx")
                  /\ pc' = "Create.created"
                  /\ UNCHANGED << outcome, diags >>
    /\ UNCHANGED << cidrBlocks, partition, rtype, defaultTags, ignoreKeys, cfg, d, isNew, op,
                    inputTags, lookup, polls >>

\* one probe of waitVolumeCreated, and the code after the wait
OntapVolumeCreate_WaitCreated ==
    /\ rtype = "fsx"
    /\ pc = "Create.created"
    /\ \E probe \in WaitProbes :
          LET w == WaitUntil(probe, polls, CreatePolls)
          IN  /\ calls' = Append(calls, Call("DescribeVolumes", FALSE, probe.err))
              /\ IF w.step = "again"
                 THEN /\ polls' = polls + 1
                      /\ UNCHANGED << pc, outcome, diags >>
                 ELSE /\ polls' = 0
                      /\ IF w.err # NoErr
                         THEN Return(AppendErrorf(diags,
                                  "waiting for FSx Volume create", id, w.err))
                         ELSE /\ pc' = "Read.lookup"
                              /\ UNCHANGED << outcome, diags >>
    /\ UNCHANGED << cidrBlocks, partition, rtype, defaultTags, ignoreKeys, cfg, d, id, isNew,
                    op, inputTags, lookup >>

\* what FindVolumeByID may return; ontap tells whether the record has an
\* OntapConfiguration
OntapVolumeLookups ==
    { [out |-> NilRepo, err |-> e, ontap |-> FALSE] :
          e \in { NotFoundError(AwsErr("VolumeNotFound")), EmptyResultError,
                  AwsErr(OtherCode) } }
    \cup { [out |-> Record(RepoName, "CREATED", EmptyTags), err |-> NoErr, ontap |-> b] :
          b \in BOOLEAN }

\* FindVolumeByID and the code of resourceOntapVolumeRead up to the ListTags call
OntapVolumeRead_Find ==
    /\ rtype = "fsx"
    /\ pc = "Read.lookup"
    /\ \E r \in OntapVolumeLookups :
          LET next == ReadAfterLookup(r.err, isNew)
          IN  /\ calls' = Append(calls, Call("DescribeVolumes", FALSE, r.err))
              /\ lookup' = Looked(r, << >>, id)
              /\ CASE next = "drop" ->
                        /\ id' = EmptyId
                        /\ Return(diags)
                        /\ d' = d
                   [] next = "error" ->
                        /\ Return(AppendErrorf(diags, "reading FSx ONTAP Volume", id, r.err))
                        /\ UNCHANGED << id, d >>
                   [] OTHER ->
                        IF ~r.ontap
                        THEN /\ Return(AppendErrorf(diags, "describing FSx ONTAP Volume", id,
                                    FmtError("empty ONTAP configuration")))
                             /\ UNCHANGED << id, d >>
                        ELSE /\ d' = [d EXCEPT !.arn = "arn"]
                             /\ pc' = "Read.tags"
                             /\ UNCHANGED << id, outcome, diags >>
    /\ UNCHANGED << cidrBlocks, partition, rtype, defaultTags, ignoreKeys, cfg, isNew, op,
                    inputTags, polls >>

\* the diagnostic of a failed tag listing: the message is formatted from
\* err, the error of the lookup, which is nil here, and not from tagserr
OntapVolumeTagsError(ds, rid, err, tagserr) ==
    AppendErrorf(ds, "reading Tags for FSx ONTAP Volume", rid, err)

\* ListTags and the rest of resourceOntapVolumeRead
OntapVolumeRead_ListTags ==
    /\ rtype = "fsx"
    /\ pc = "Read.tags"
    /\ \E resp \in { [err |-> AwsErr(OtherCode), tags |-> EmptyTags] }
                   \cup { [err |-> NoErr, tags |-> t] : t \in RemoteTagMaps } :
          /\ calls' = Append(calls, Call("ListTagsForResource", FALSE, resp.err))
          /\ IF resp.err # NoErr
             THEN /\ Return(OntapVolumeTagsError(diags, id, lookup.err, resp.err))
                  /\ d' = d
             ELSE LET t == ReadTags(resp.tags, ignoreKeys, defaultTags)
                  IN  /\ d' = [d EXCEPT !.tags = t.tags, !.tags_all = t.tags_all]
                      /\ Return(diags)
    /\ UNCHANGED << cidrBlocks, partition, rtype, defaultTags, ignoreKeys, cfg, id, isNew, op,
                    inputTags, lookup, polls >>

----------------------------------------------------------------------------
(* Lightsail container service *)

\* resourceContainerServiceDelete: DeleteContainerService and the code after it
ContainerServiceDelete_Call ==
    /\ rtype = "lightsail"
    /\ pc = "Delete.call"
    /\ \E e \in DeleteResponses("NotFoundException") :
          LET next == DeleteAfterCall(e, "NotFoundException")
          IN  /\ calls' = Append(calls, Call("DeleteContainerService", FALSE, e))
              /\ CASE next = "gone" -> Return(diags)
                   [] next = "error" ->
                        Return(AppendErrorf(diags,
                            "error deleting Lightsail Container Service", id, e))
                   [] OTHER ->
                        /\ pc' = "Delete.wait"
                        /\ UNCHANGED << outcome, diags >>
    /\ UNCHANGED << cidrBlocks, partition, rtype, defaultTags, ignoreKeys, cfg, d, id, isNew,
                    op, inputTags, lookup, polls >>

\* one probe of waitContainerServiceDeleted, and the code after the wait
ContainerServiceDelete_Wait ==
    /\ rtype = "lightsail"
    /\ pc = "Delete.wait"
    /\ \E probe \in WaitProbes :
          LET w == WaitUntil(probe, polls, DeletePolls)
          IN  /\ calls' = Append(calls, Call("GetContainerServices", FALSE, probe.err))
              /\ lookup' = Observed(probe)
              /\ IF w.step = "again"
                 THEN /\ polls' = polls + 1
                      /\ UNCHANGED << pc, outcome, diags >>
                 ELSE /\ polls' = polls
                      /\ Return(DeleteAfterWait(diags,
                             "error waiting for Lightsail Container Service deletion",
                             id, w.err))
    /\ UNCHANGED << cidrBlocks, partition, rtype, defaultTags, ignoreKeys, cfg, d, id, isNew,
                    op, inputTags >>

\* CreateContainerService and the code after it
ContainerServiceCreate_Call ==
    /\ rtype = "lightsail"
    /\ pc = "Create.call"
    /\ \E e \in { NoErr, AwsErr(OtherCode) } :
          /\ calls' = Append(calls, TagCall("CreateContainerService", inputTags, e))
          /\ IF e # NoErr
             THEN /\ Return(AppendErrorf(diags, "error creating Lightsail Container Service",
                                 IdOf("lightsail"), e))
                  /\ id' = id
             ELSE /\ id' = IdOf("lightsail")
                  /\ pc' = "Create.created"
                  /\ UNCHANGED << outcome, diags >>
    /\ UNCHANGED << cidrBlocks, partition, rtype, defaultTags, ignoreKeys, cfg, d, isNew, op,
                    inputTags, lookup, polls >>

\* what the probe of a container service wait saw of the service, waiting
\* for the state target
ContainerServiceObserved(probe, target) ==
    Looked([out |-> IF probe.state = "failed" THEN NilRepo
                    ELSE Record(IdOf("lightsail"),
                                IF probe.state = "reached" THEN target ELSE "PENDING",
                                EmptyTags),
            err |-> probe.err], << >>, EmptyId)

\* a Create that never disables the service
ContainerServiceAfterCreated_NeverDisabled(disabled) ==
    "Read.lookup"

\* resourceContainerServiceCreate after the service was created: "if v, ok :=
\* d.GetOk("is_disabled"); ok && v.(bool)"
ContainerServiceAfterCreated(disabled) ==
    IF disabled THEN "Create.disable" ELSE "Read.lookup"

\* one probe of waitContainerServiceCreated, and the code after the wait
ContainerServiceCreate_WaitCreated ==
    /\ rtype = "lightsail"
    /\ pc = "Create.created"
    /\ \E probe \in WaitProbes :
          LET w == WaitUntil(probe, polls, CreatePolls)
          IN  /\ calls' = Append(calls, Call("GetContainerServices", FALSE, probe.err))
              /\ lookup' = ContainerServiceObserved(probe, "READY")
              /\ IF w.step = "again"
                 THEN /\ polls' = polls + 1
                      /\ UNCHANGED << pc, outcome, diags >>
                 ELSE /\ polls' = 0
                      /\ IF w.err # NoErr
                         THEN Return(AppendErrorf(diags,
                                  "error waiting for Lightsail Container Service creation",
                                  id, w.err))
                         ELSE /\ pc' = ContainerServiceAfterCreated(cfg.is_disabled)
                              /\ UNCHANGED << outcome, diags >>
    /\ UNCHANGED << cidrBlocks, partition, rtype, defaultTags, ignoreKeys, cfg, d, id, isNew,
                    op, inputTags >>

\* UpdateContainerService with IsDisabled set, and the code after it
ContainerServiceCreate_Disable ==
    /\ rtype = "lightsail"
    /\ pc = "Create.disable"
    /\ \E e \in { NoErr, AwsErr(OtherCode) } :
          /\ calls' = Append(calls, Call("UpdateContainerService", FALSE, e))
          /\ IF e # NoErr
             THEN Return(AppendErrorf(diags, "error disabling Lightsail Container Service",
                             id, e))
             ELSE /\ pc' = "Create.disabled"
                  /\ UNCHANGED << outcome, diags >>
    /\ UNCHANGED << cidrBlocks, partition, rtype, defaultTags, ignoreKeys, cfg, d, id, isNew,
                    op, inputTags, lookup, polls >>

\* one probe of waitContainerServiceDisabled, and the code after the wait
ContainerServiceCreate_WaitDisabled ==
    /\ rtype = "lightsail"
    /\ pc = "Create.disabled"
    /\ \E probe \in WaitProbes :
          LET w == WaitUntil(probe, polls, CreatePolls)
          IN  /\ calls' = Append(calls, Call("GetContainerServices", FALSE, probe.err))
              /\ lookup' = ContainerServiceObserved(probe, "DISABLED")
              /\ IF w.step = "again"
                 THEN /\ polls' = polls + 1
                      /\ UNCHANGED << pc, outcome, diags >>
                 ELSE /\ polls' = 0
                      /\ IF w.err # NoErr
                         THEN Return(AppendErrorf(diags,
                                  "error waiting for Lightsail Container Service to be disabled",
                                  id, w.err))
                         ELSE /\ pc' = "Read.lookup"
                              /\ UNCHANGED << outcome, diags >>
    /\ UNCHANGED << cidrBlocks, partition, rtype, defaultTags, ignoreKeys, cfg, d, id, isNew,
                    op, inputTags >>

\* FindContainerServiceByName and the rest of resourceContainerServiceRead
ContainerServiceRead_Find ==
    /\ rtype = "lightsail"
    /\ pc = "Read.lookup"
    /\ \E r \in FinderLookups("NotFoundException") :
          LET next == ReadAfterLookup(r.err, isNew)
              t == ReadTags(r.out.tags, ignoreKeys, defaultTags)
          IN  /\ calls' = Append(calls, Call("GetContainerServices", FALSE, r.err))
              /\ lookup' = Looked(r, << >>, id)
              /\ CASE next = "drop" ->
                        /\ id' = EmptyId
                        /\ Return(diags)
                        /\ d' = d
                   [] next = "error" ->
                        /\ Return(AppendErrorf(diags,
                               "error reading Lightsail Container Service", id, r.err))
                        /\ UNCHANGED << id, d >>
                   [] OTHER ->
                        /\ d' = [arn |-> "arn", tags |-> t.tags, tags_all |-> t.tags_all]
                        /\ Return(diags)
                        /\ id' = id
    /\ UNCHANGED << cidrBlocks, partition, rtype, defaultTags, ignoreKeys, cfg, isNew, op,
                    inputTags, polls >>

----------------------------------------------------------------------------
(* API Gateway v2 API *)

\* resourceAPIDelete: DeleteApi and the code after it; there is no wait
APIDelete_Call ==
    /\ rtype = "apigatewayv2"
    /\ pc = "Delete.call"
    /\ \E e \in DeleteResponses("NotFoundException") :
          LET next == DeleteAfterCall(e, "NotFoundException")
          IN  /\ calls' = Append(calls, Call("DeleteApi", FALSE, e))
              /\ IF next = "error"
                 THEN Return(AppendErrorf(diags, "deleting API Gateway v2 API", id, e))
                 ELSE Return(diags)
    /\ UNCHANGED << cidrBlocks, partition, rtype, defaultTags, ignoreKeys, cfg, d, id, isNew,
                    op, inputTags, lookup, polls >>

\* resourceAPIRead after GetApi
APIReadAfterGet(err, new) ==
    IF ErrCodeEquals(err, { "NotFoundException" }) /\ ~new THEN "drop"
    ELSE IF err # NoErr THEN "error"
    ELSE "project"

\* GetApi and the rest of resourceAPIRead
APIRead_Get ==
    /\ rtype = "apigatewayv2"
    /\ pc = "Read.lookup"
    /\ \E resp \in { [err |-> AwsErr(c), tags |-> EmptyTags] :
                        c \in { "NotFoundException", OtherCode } }
                   \cup { [err |-> NoErr, tags |-> t] : t \in RemoteTagMaps } :
          LET next == APIReadAfterGet(resp.err, isNew)
              t == ReadTags(resp.tags, ignoreKeys, defaultTags)
          IN  /\ calls' = Append(calls, Call("GetApi", FALSE, resp.err))
              /\ lookup' = Looked([out |-> IF resp.err = NoErr
                                            THEN Record(id, "AVAILABLE", resp.tags)
                                            ELSE NilRepo,
                                   err |-> resp.err], << >>, id)
              /\ CASE next = "drop" ->
                        /\ id' = EmptyId
                        /\ Return(diags)
                        /\ d' = d
                   [] next = "error" ->
                        /\ Return(AppendErrorf(diags, "reading API Gateway v2 API", id, resp.err))
                        /\ UNCHANGED << id, d >>
                   [] OTHER ->
                        /\ d' = [arn |-> "arn", tags |-> t.tags, tags_all |-> t.tags_all]
                        /\ Return(diags)
                        /\ id' = id
    /\ UNCHANGED << cidrBlocks, partition, rtype, defaultTags, ignoreKeys, cfg, isNew, op,
                    inputTags, polls >>

----------------------------------------------------------------------------
(* Update of an ECR repository, an ECS task set and a RAM resource share *)

UpdateTypes == { "ecr", "ecs", "ram", "apigatewayv2" }

\* the fields, other than the tags, that an Update may find changed; no call
\* of resourceRepositoryUpdate belongs to force_delete
FieldGroups(t) ==
    IF t = "ecr"
    THEN { "image_tag_mutability", "image_scanning_configuration", "force_delete" }
    ELSE IF t = "ram" THEN { "name", "allow_external_principals" }
    ELSE IF t = "apigatewayv2" THEN { "cors_configuration", "name" }
    ELSE { "scale" }

\* the remove request of UpdateTags, issued when some tag was removed
UpdateTagsRemoveInput(old, new) == SomeTags(IgnoreAWS(Removed(old, new)))

\* an add request that writes every tag of new again
UpdateTagsAddInput_All(old, new) ==
    SomeTags(IgnoreAWS(new))

\* the add request of UpdateTags, issued when some tag was added or changed
UpdateTagsAddInput(old, new) == SomeTags(IgnoreAWS(Updated(old, new)))

\* UpdateTags after its remove request, if any: the add request or the end
UpdateTagsAfterRemove(old, new) ==
    IF Cardinality(DOMAIN Updated(old, new)) > 0 THEN "Update.tag" ELSE "Read.lookup"

\* the first request of UpdateTags(arn, old, new), if any
UpdateTagsFirst(old, new) ==
    IF Cardinality(DOMAIN Removed(old, new)) > 0 THEN "Update.untag"
    ELSE UpdateTagsAfterRemove(old, new)

\* "if d.HasChange("tags_all")" and the call of UpdateTags
UpdateTagsStep(old, new) ==
    IF old = new THEN "Read.lookup" ELSE UpdateTagsFirst(old, new)

\* an Update that sets the scanning configuration whether it changed or not
RepositoryUpdateAfter_AlwaysScanning(done, changed, old, new) ==
    IF done = "start" /\ "image_tag_mutability" \in changed THEN "Update.mutability"
    ELSE IF done \in { "start", "image_tag_mutability" } THEN "Update.scanning"
    ELSE UpdateTagsStep(old, new)

\* resourceRepositoryUpdate after the field group done: the next changed group
RepositoryUpdateAfter(done, changed, old, new) ==
    IF done = "start" /\ "image_tag_mutability" \in changed THEN "Update.mutability"
    ELSE IF done \in { "start", "image_tag_mutability" }
            /\ "image_scanning_configuration" \in changed THEN "Update.scanning"
    ELSE UpdateTagsStep(old, new)

\* resourceTaskSetUpdate: "if d.HasChangesExcept("tags", "tags_all")"
TaskSetUpdateFirst(changed, old, new) ==
    IF changed # {} THEN "Update.call" ELSE UpdateTagsStep(old, new)

\* resourceTaskSetUpdate after UpdateTaskSet succeeded
TaskSetUpdateAfterCall(wait, old, new) ==
    IF wait THEN "Update.stable" ELSE UpdateTagsStep(old, new)

\* an Update that goes on after UpdateTags failed
UpdateAfterTags_FailureIgnored(t, p, err) ==
    "next"

\* Update after UpdateTags returned err: go on to Read although the tags were
\* not stored, fail, or go on
UpdateAfterTags(t, p, err) ==
    IF t \notin { "ram", "apigatewayv2" } /\ (t = "ecs" \/ p # "aws")
          /\ ErrorISOUnsupported(p, err) THEN "read"
    ELSE IF err # NoErr THEN "error"
    ELSE "next"

UpdateTagsSummary(t) ==
    IF t = "ecr" THEN "updating ECR Repository tags"
    ELSE IF t = "ram" THEN "updating RAM Resource Share tags"
    ELSE IF t = "apigatewayv2" THEN "updating API Gateway v2 API tags"
    ELSE "ECS tagging failed updating tags for Task Set"

\* expandCORSConfiguration: a non-nil Cors for every list, the empty list
\* included
expandCORSConfiguration(empty) ==
    IF empty THEN "empty" ELSE "set"

\* the UpdateApi request of resourceAPIUpdate: a field is set if it changed
UpdateApiInput(changed, empty) ==
    [Name |-> "name" \in changed,
     CorsConfiguration |-> IF "cors_configuration" \in changed
                           THEN expandCORSConfiguration(empty) ELSE "nil"]

\* the log entry of an UpdateApi call with the request req
UpdateApiCall(req, err) ==
    [api |-> "UpdateApi", tagged |-> FALSE, tags |-> EmptyTags, err |-> err, req |-> req]

\* resourceAPIUpdate after the CORS configuration was deleted, or was not
APIUpdateAfterCors(changed, deleteCorsConfiguration, old, new) ==
    IF "name" \in changed \/ ("cors_configuration" \in changed /\ ~deleteCorsConfiguration)
    THEN "Update.api"
    ELSE UpdateTagsStep(old, new)

\* the first call of resourceAPIUpdate
APIUpdateFirst(changed, empty, old, new) ==
    IF "cors_configuration" \in changed /\ empty THEN "Update.cors"
    ELSE APIUpdateAfterCors(changed, FALSE, old, new)

\* resourceResourceShareUpdate: "if d.HasChanges("name", "allow_external_principals")"
ResourceShareUpdateFirst(changed, old, new) ==
    IF changed \cap { "name", "allow_external_principals" } # {} THEN "Update.share"
    ELSE UpdateTagsStep(old, new)

\* Update of a tracked resource whose plan shows a change
Apply_Update ==
    /\ rtype \in UpdateTypes
    /\ id # EmptyId
    /\ \E t \in TagMaps(UserTagKeys), changed \in SUBSET FieldGroups(rtype),
          w \in IF rtype = "ecs" THEN BOOLEAN ELSE { FALSE }, ce \in BOOLEAN :
          LET new == SetTagsDiff(defaultTags, t, ignoreKeys)
          IN  /\ changed # {} \/ new # d.tags_all
              /\ ce => rtype = "apigatewayv2" /\ "cors_configuration" \in changed
              /\ cfg' = [tags |-> t, wait_until_stable |-> w, is_disabled |-> FALSE,
                         cors_empty |-> ce, changed |-> changed]
              /\ Invoke("Update",
                        IF rtype = "ecr"
                        THEN RepositoryUpdateAfter("start", changed, d.tags_all, new)
                        ELSE IF rtype = "ram"
                        THEN ResourceShareUpdateFirst(changed, d.tags_all, new)
                        ELSE IF rtype = "apigatewayv2"
                        THEN APIUpdateFirst(changed, ce, d.tags_all, new)
                        ELSE TaskSetUpdateFirst(changed, d.tags_all, new),
                        FALSE)
    /\ inputTags' = NilTags
    /\ UNCHANGED << cidrBlocks, partition, rtype, defaultTags, ignoreKeys, d, id >>

\* PutImageTagMutability and the code after it
RepositoryUpdate_Mutability ==
    /\ rtype = "ecr"
    /\ pc = "Update.mutability"
    /\ \E e \in { NoErr, AwsErr(OtherCode) } :
          /\ calls' = Append(calls, Call("PutImageTagMutability", FALSE, e))
          /\ IF e # NoErr
             THEN Return(AppendErrorf(diags,
                      "setting ECR Repository image tag mutability", id, e))
             ELSE /\ pc' = RepositoryUpdateAfter("image_tag_mutability", cfg.changed,
                               d.tags_all, SetTagsDiff(defaultTags, cfg.tags, ignoreKeys))
                  /\ UNCHANGED << outcome, diags >>
    /\ UNCHANGED << cidrBlocks, partition, rtype, defaultTags, ignoreKeys, cfg, d, id, isNew,
                    op, inputTags, lookup, polls >>

\* PutImageScanningConfiguration and the code after it
RepositoryUpdate_Scanning ==
    /\ rtype = "ecr"
    /\ pc = "Update.scanning"
    /\ \E e \in { NoErr, AwsErr(OtherCode) } :
          /\ calls' = Append(calls, Call("PutImageScanningConfiguration", FALSE, e))
          /\ IF e # NoErr
             THEN Return(AppendErrorf(diags,
                      "setting ECR Repository image scanning configuration", id, e))
             ELSE /\ pc' = RepositoryUpdateAfter("image_scanning_configuration", cfg.changed,
                               d.tags_all, SetTagsDiff(defaultTags, cfg.tags, ignoreKeys))
                  /\ UNCHANGED << outcome, diags >>
    /\ UNCHANGED << cidrBlocks, partition, rtype, defaultTags, ignoreKeys, cfg, d, id, isNew,
                    op, inputTags, lookup, polls >>

\* TaskSetParseID, UpdateTaskSet and the code after it
TaskSetUpdate_Call ==
    /\ rtype = "ecs"
    /\ pc = "Update.call"
    /\ IF TaskSetParseID(id).err # NoErr
       THEN /\ Return(AppendErrorf(diags, "updating ECS Task Set", id, TaskSetParseID(id).err))
            /\ calls' = calls
       ELSE \E e \in { NoErr, AwsErr(OtherCode) } :
               /\ calls' = Append(calls, Call("UpdateTaskSet", FALSE, e))
               /\ IF e # NoErr
                  THEN Return(AppendErrorf(diags, "updating ECS Task Set", id, e))
                  ELSE /\ pc' = TaskSetUpdateAfterCall(cfg.wait_until_stable, d.tags_all,
                                    SetTagsDiff(defaultTags, cfg.tags, ignoreKeys))
                       /\ UNCHANGED << outcome, diags >>
    /\ UNCHANGED << cidrBlocks, partition, rtype, defaultTags, ignoreKeys, cfg, d, id, isNew,
                    op, inputTags, lookup, polls >>

\* one probe of waitTaskSetStable after the update, and the code after the wait
TaskSetUpdate_WaitStable ==
    /\ rtype = "ecs"
    /\ pc = "Update.stable"
    /\ \E probe \in WaitProbes :
          LET w == WaitUntil(probe, polls, StablePolls)
          IN  /\ calls' = Append(calls, Call("DescribeTaskSets", FALSE, probe.err))
              /\ lookup' = StabilityObserved(probe)
              /\ IF w.step = "again"
                 THEN /\ polls' = polls + 1
                      /\ UNCHANGED << pc, outcome, diags >>
                 ELSE /\ polls' = 0
                      /\ IF w.err # NoErr
                         THEN Return(AppendErrorf(diags,
                                  "waiting for ECS Task Set to be stable after update",
                                  id, w.err))
                         ELSE /\ pc' = UpdateTagsStep(d.tags_all,
                                           SetTagsDiff(defaultTags, cfg.tags, ignoreKeys))
                              /\ UNCHANGED << outcome, diags >>
    /\ UNCHANGED << cidrBlocks, partition, rtype, defaultTags, ignoreKeys, cfg, d, id, isNew,
                    op, inputTags >>

\* UpdateResourceShare and the code after it
ResourceShareUpdate_Call ==
    /\ rtype = "ram"
    /\ pc = "Update.share"
    /\ \E e \in { NoErr, AwsErr(OtherCode) } :
          /\ calls' = Append(calls, Call("UpdateResourceShare", FALSE, e))
          /\ IF e # NoErr
             THEN Return(AppendErrorf(diags, "updating RAM Resource Share", id, e))
             ELSE /\ pc' = UpdateTagsStep(d.tags_all,
                               SetTagsDiff(defaultTags, cfg.tags, ignoreKeys))
                  /\ UNCHANGED << outcome, diags >>
    /\ UNCHANGED << cidrBlocks, partition, rtype, defaultTags, ignoreKeys, cfg, d, id, isNew,
                    op, inputTags, lookup, polls >>

\* DeleteCorsConfiguration and the code after it; the API has no OpenAPI
\* body, so resourceImportOpenAPI is never entered
APIUpdate_DeleteCors ==
    /\ rtype = "apigatewayv2"
    /\ pc = "Update.cors"
    /\ \E e \in { NoErr, AwsErr(OtherCode) } :
          /\ calls' = Append(calls, Call("DeleteCorsConfiguration", FALSE, e))
          /\ IF e # NoErr
             THEN Return(AppendErrorf(diags,
                         "deleting CORS configuration for API Gateway v2 API", id, e))
             ELSE /\ pc' = APIUpdateAfterCors(cfg.changed, TRUE, d.tags_all,
                                 SetTagsDiff(defaultTags, cfg.tags, ignoreKeys))
                  /\ UNCHANGED << outcome, diags >>
    /\ UNCHANGED << cidrBlocks, partition, rtype, defaultTags, ignoreKeys, cfg, d, id, isNew,
                    op, inputTags, lookup, polls >>

\* UpdateApi and the code after it
APIUpdate_Call ==
    /\ rtype = "apigatewayv2"
    /\ pc = "Update.api"
    /\ \E e \in { NoErr, AwsErr(OtherCode) } :
          /\ calls' = Append(calls,
                  UpdateApiCall(UpdateApiInput(cfg.changed, cfg.cors_empty), e))
          /\ IF e # NoErr
             THEN Return(AppendErrorf(diags, "updating API Gateway v2 API", id, e))
             ELSE /\ pc' = UpdateTagsStep(d.tags_all,
                                 SetTagsDiff(defaultTags, cfg.tags, ignoreKeys))
                  /\ UNCHANGED << outcome, diags >>
    /\ UNCHANGED << cidrBlocks, partition, rtype, defaultTags, ignoreKeys, cfg, d, id, isNew,
                    op, inputTags, lookup, polls >>

\* the remove request of UpdateTags(arn, o, n), and the code after it
Update_Untag ==
    /\ rtype \in UpdateTypes
    /\ pc = "Update.untag"
    /\ \E e \in { NoErr, AwsErr(ISOUnsupportedCode), AwsErr(OtherCode) } :
          LET old == d.tags_all
              new == SetTagsDiff(defaultTags, cfg.tags, ignoreKeys)
              next == UpdateAfterTags(rtype, partition, e)
          IN  /\ calls' = Append(calls,
                      TagCall("UntagResource", UpdateTagsRemoveInput(old, new), e))
              /\ CASE next = "read" ->
                        /\ pc' = "Read.lookup"
                        /\ UNCHANGED << outcome, diags >>
                   [] next = "error" ->
                        Return(AppendErrorf(diags, UpdateTagsSummary(rtype), id, e))
                   [] OTHER ->
                        /\ pc' = UpdateTagsAfterRemove(old, new)
                        /\ UNCHANGED << outcome, diags >>
    /\ UNCHANGED << cidrBlocks, partition, rtype, defaultTags, ignoreKeys, cfg, d, id, isNew,
                    op, inputTags, lookup, polls >>

\* the add request of UpdateTags(arn, o, n), and the code after it
Update_Tag ==
    /\ rtype \in UpdateTypes
    /\ pc = "Update.tag"
    /\ \E e \in { NoErr, AwsErr(ISOUnsupportedCode), AwsErr(OtherCode) } :
          LET old == d.tags_all
              new == SetTagsDiff(defaultTags, cfg.tags, ignoreKeys)
              next == UpdateAfterTags(rtype, partition, e)
          IN  /\ calls' = Append(calls,
                      TagCall("TagResource", UpdateTagsAddInput(old, new), e))
              /\ IF next = "error"
                 THEN Return(AppendErrorf(diags, UpdateTagsSummary(rtype), id, e))
                 ELSE /\ pc' = "Read.lookup"
                      /\ UNCHANGED << outcome, diags >>
    /\ UNCHANGED << cidrBlocks, partition, rtype, defaultTags, ignoreKeys, cfg, d, id, isNew,
                    op, inputTags, lookup, polls >>

----------------------------------------------------------------------------
Next ==
    \/ Apply_Create
    \/ Apply_Read
    \/ Apply_Delete
    \/ RepositoryCreate_Call
    \/ Create_Tag
    \/ RepositoryRead_Find
    \/ RepositoryRead_ListTags
    \/ RepositoryDelete_Call
    \/ RepositoryDelete_Wait
    \/ TaskSetCreate_Call
    \/ TaskSetCreate_WaitStable
    \/ TaskSetRead_Describe
    \/ TaskSetRead_DescribeWithoutTags
    \/ TaskSetDelete_Call
    \/ TaskSetDelete_Wait
    \/ ResourceShareRead_Find
    \/ ResourceShareRead_ListPermissions
    \/ ResourceShareDelete_Call
    \/ ResourceShareDelete_Wait
    \/ OntapVolumeDelete_Call
    \/ OntapVolumeDelete_Wait
    \/ ContainerServiceDelete_Call
    \/ ContainerServiceDelete_Wait
    \/ APIDelete_Call
    \/ Apply_Update
    \/ APIRead_Get
    \/ ResourceShareCreate_Call
    \/ ResourceShareCreate_WaitActive
    \/ RepositoryUpdate_Mutability
    \/ RepositoryUpdate_Scanning
    \/ TaskSetUpdate_Call
    \/ TaskSetUpdate_WaitStable
    \/ Update_Untag
    \/ Update_Tag
    \/ ResourceShareUpdate_Call
    \/ APIUpdate_DeleteCors
    \/ APIUpdate_Call
    \/ OntapVolumeCreate_Call
    \/ OntapVolumeCreate_WaitCreated
    \/ OntapVolumeRead_Find
    \/ OntapVolumeRead_ListTags
    \/ ContainerServiceCreate_Call
    \/ ContainerServiceCreate_WaitCreated
    \/ ContainerServiceCreate_Disable
    \/ ContainerServiceCreate_WaitDisabled
    \/ ContainerServiceRead_Find

Spec == Init /\ [][Next]_vars

TypeOK ==
    /\ partition \in Partitions
    /\ rtype \in ResourceTypes
    /\ pc \in { "done", "Create.call", "Create.stable", "Create.tag", "Create.active", "Create.created",
                "Create.disable", "Create.disabled", "Read.lookup",
                "Read.retry", "Read.tags", "Read.permissions", "Delete.call",
                "Delete.wait", "Update.mutability", "Update.scanning",
                "Update.call", "Update.share", "Update.cors", "Update.api", "Update.stable", "Update.untag", "Update.tag" }
    /\ outcome \in { "none", "running", "returned", "panic" }
    /\ polls \in 0..(PropagationPolls + DeletePolls + CreatePolls + StablePolls)
    /\ isNew \in BOOLEAN

----------------------------------------------------------------------------
(* The identity of the ECS task set on its own: every string Create may     *)
(* format and every string an import may hand to TaskSetParseID             *)

MaxPartLen == 2   \* characters of one part of the identity
MaxIdLen == 5     \* characters of an imported identity

IdChars == { "a", "," }

\* task set id, service and cluster as the create response and the
\* configuration give them: strings without validation, never empty
IdParts == SeqsUpTo(IdChars, MaxPartLen) \ { << >> }

\* d.Get("task_set_id"), d.Get("service"), d.Get("cluster")
PartsData(t, s, c) == [taskSetId |-> t, service |-> s, cluster |-> c]
NoParts == PartsData(<< >>, << >>, << >>)

\* the result of a parse that has not run
NotParsed == [taskSetId |-> << >>, service |-> << >>, cluster |-> << >>, err |-> NoErr]

IdInit ==
    /\ partition = "aws"
    /\ rtype = "ecs"
    /\ defaultTags = EmptyTags
    /\ ignoreKeys = {}
    /\ cfg = NoConfig
    /\ isNew = FALSE
    /\ inputTags = NilTags
    /\ calls = << >>
    /\ lookup = NotParsed
    /\ polls = 0
    /\ diags = << >>
    /\ outcome = "none"
    /\ cidrBlocks = {}
    /\ \/ /\ op = "Create"
          /\ pc = "Create.setid"
          /\ id = EmptyId
          /\ d \in { PartsData(t, s, c) : t \in IdParts, s \in IdParts, c \in IdParts }
       \/ /\ op = "Read"
          /\ pc = "Read.parse"
          /\ id \in SeqsUpTo(IdChars, MaxIdLen)
          /\ d = NoParts

\* d.SetId(fmt.Sprintf("%s,%s,%s", taskSetId, service, cluster)), after which
\* Create goes on to the Read
TaskSetCreate_SetId ==
    /\ pc = "Create.setid"
    /\ id' = TaskSetFormatID(d.taskSetId, d.service, d.cluster)
    /\ pc' = "Read.parse"
    /\ UNCHANGED << cidrBlocks, partition, rtype, defaultTags, ignoreKeys, cfg, d, isNew, op,
                    inputTags, calls, lookup, polls, diags, outcome >>

\* taskSetId, service, cluster, err := TaskSetParseID(d.Id())
TaskSetRead_ParseID ==
    /\ pc = "Read.parse"
    /\ lookup' = TaskSetParseID(id)
    /\ pc' = "done"
    /\ UNCHANGED << cidrBlocks, partition, rtype, defaultTags, ignoreKeys, cfg, d, id, isNew, op,
                    inputTags, calls, polls, diags, outcome >>

IdNext ==
    \/ TaskSetCreate_SetId
    \/ TaskSetRead_ParseID

IdSpec == IdInit /\ [][IdNext]_vars

----------------------------------------------------------------------------
(* Route 53 CIDR location, driven by the steps of its acceptance tests: a   *)
(* step applies a configuration (refresh, plan, Create or Update), imports  *)
(* the resource, or destroys it, and the tests' checks look the location up *)

CIDRBlocks == { "200.5.2.0/24", "200.5.3.0/24", "200.6.3.0/24", "200.6.5.0/24" }

\* cidr_blocks of testAccCIDRLocation_basic and testAccCIDRLocation_updated
BasicBlocks == { "200.5.3.0/24", "200.6.3.0/24" }
UpdatedBlocks == { "200.5.2.0/24", "200.6.3.0/24", "200.6.5.0/24" }

\* the values cidr_blocks may be configured with
CIDRConfigs == (SUBSET CIDRBlocks) \ { {} }

CollectionID == << "c" >>
LocationName == << "n" >>

\* an identity that puts the name first
CIDRLocationCreateResourceID_NameFirst(collectionID, name) ==
    name \o << "," >> \o collectionID

\* the identity of a location: collection ID and name joined with ","
CIDRLocationCreateResourceID(collectionID, name) ==
    collectionID \o << "," >> \o name

CIDRLocationParseResourceID(rid) ==
    LET parts == Split(rid, ",")
    IN  IF Len(parts) = 2 /\ parts[1] # << >> /\ parts[2] # << >>
        THEN [collectionID |-> parts[1], name |-> parts[2], err |-> NoErr]
        ELSE [collectionID |-> << >>, name |-> << >>,
              err |-> FmtError("unexpected format of ID")]

\* FindCIDRLocationByTwoPartKey against the blocks the service holds
\* for the location (CollectionID, LocationName): a location without blocks
\* does not exist
FindCIDRLocationByTwoPartKey(held, collectionID, name) ==
    IF collectionID = CollectionID /\ name = LocationName /\ held # {}
    THEN [blocks |-> held, err |-> NoErr]
    ELSE [blocks |-> {}, err |-> NotFoundError(NoErr)]

\* the lookup both checks of the tests make with the identity in the state
CheckLookup(held, rid) ==
    LET key == CIDRLocationParseResourceID(rid)
    IN  IF key.err # NoErr THEN [blocks |-> {}, err |-> key.err]
        ELSE FindCIDRLocationByTwoPartKey(held, key.collectionID, key.name)

\* the log entry of one ChangeCidrCollection call
CidrCall(action, blocks, err) ==
    [api |-> "ChangeCidrCollection", action |-> action, blocks |-> blocks, err |-> err]

\* an Update that deletes no block
CIDRLocationUpdateDelete_None(old, new) ==
    {}

\* the blocks an Update deletes, and the blocks it puts
CIDRLocationUpdateDelete(old, new) ==
    old \ new

CIDRLocationUpdatePut(old, new) ==
    new \ old

\* the plan after the refresh: nothing to do, or the first call of Update
CIDRLocationUpdateFirst(old, new) ==
    IF old = new THEN "done"
    ELSE IF CIDRLocationUpdateDelete(old, new) # {} THEN "Update.delete"
    ELSE "Update.put"

CidrData(name, blocks) == [name |-> name, cidr_blocks |-> blocks]

CidrInit ==
    /\ partition = "aws"
    /\ rtype = "route53"
    /\ defaultTags = EmptyTags
    /\ ignoreKeys = {}
    /\ cfg = CidrData(LocationName, {})
    /\ d = CidrData(<< >>, {})
    /\ id = EmptyId
    /\ isNew = FALSE
    /\ op = "none"
    /\ pc = "done"
    /\ inputTags = NilTags
    /\ calls = << >>
    /\ lookup = NoLookup
    /\ polls = 0
    /\ diags = << >>
    /\ outcome = "none"
    /\ cidrBlocks = {}

\* a test step with a Config: the location is created, or refreshed and
\* updated
TestStep_Config ==
    /\ \E c \in CIDRConfigs : cfg' = CidrData(LocationName, c)
    /\ IF id = EmptyId
       THEN Invoke("Create", "Create.call", TRUE)
       ELSE Invoke("Update", "Update.refresh", FALSE)
    /\ UNCHANGED << cidrBlocks, partition, rtype, defaultTags, ignoreKeys, d, id, inputTags >>

\* a test step with ImportState: the location is read
TestStep_ImportState ==
    /\ id # EmptyId
    /\ Invoke("Read", "Read.lookup", FALSE)
    /\ UNCHANGED << cidrBlocks, partition, rtype, defaultTags, ignoreKeys, cfg, d, id,
                    inputTags >>

\* the end of a test: the location is destroyed
TestStep_Destroy ==
    /\ id # EmptyId
    /\ Invoke("Delete", "Delete.call", FALSE)
    /\ UNCHANGED << cidrBlocks, partition, rtype, defaultTags, ignoreKeys, cfg, d, id,
                    inputTags >>

\* Create: ChangeCidrCollection PUT with the configured blocks
CIDRLocationCreate_Call ==
    /\ pc = "Create.call"
    /\ \E e \in { NoErr, AwsErr(OtherCode) } :
          /\ calls' = Append(calls, CidrCall("PUT", cfg.cidr_blocks, e))
          /\ IF e # NoErr
             THEN /\ Return(AppendErrorf(diags, "creating Route 53 CIDR Location",
                                 EmptyId, e))
                  /\ UNCHANGED << id, d, cidrBlocks >>
             ELSE /\ cidrBlocks' = cidrBlocks \cup cfg.cidr_blocks
                  /\ id' = CIDRLocationCreateResourceID(CollectionID, cfg.name)
                  /\ d' = CidrData(cfg.name, cfg.cidr_blocks)
                  /\ Return(diags)
    /\ UNCHANGED << partition, rtype, defaultTags, ignoreKeys, cfg, isNew, op,
                    inputTags, lookup, polls >>

\* Read, and the refresh and plan of an Update: the lookup by the two-part
\* key parsed from the identity
CIDRLocationRead_Find ==
    /\ pc \in { "Read.lookup", "Update.refresh" }
    /\ \E e \in { NoErr, AwsErr(OtherCode) } :
          LET key == CIDRLocationParseResourceID(id)
              r == IF e # NoErr THEN [blocks |-> {}, err |-> e]
                   ELSE FindCIDRLocationByTwoPartKey(cidrBlocks, key.collectionID, key.name)
          IN  /\ calls' = Append(calls, Call("ListCidrBlocks", FALSE, e))
              /\ lookup' = [blocks |-> r.blocks, err |-> r.err, check |-> "none"]
              /\ IF NotFound(r.err)
                 THEN /\ id' = EmptyId
                      /\ Return(diags)
                      /\ d' = d
                 ELSE IF r.err # NoErr
                 THEN /\ Return(AppendErrorf(diags, "reading Route 53 CIDR Location",
                                     id, r.err))
                      /\ UNCHANGED << id, d >>
                 ELSE /\ d' = CidrData(key.name, r.blocks)
                      /\ id' = id
                      /\ IF pc = "Read.lookup"
                            \/ CIDRLocationUpdateFirst(r.blocks, cfg.cidr_blocks) = "done"
                         THEN Return(diags)
                         ELSE /\ pc' = CIDRLocationUpdateFirst(r.blocks, cfg.cidr_blocks)
                              /\ UNCHANGED << outcome, diags >>
    /\ UNCHANGED << cidrBlocks, partition, rtype, defaultTags, ignoreKeys, cfg, isNew, op,
                    inputTags, polls >>

\* Update: ChangeCidrCollection DELETE_IF_EXISTS with the blocks no longer
\* configured
CIDRLocationUpdate_Delete ==
    /\ pc = "Update.delete"
    /\ \E e \in { NoErr, AwsErr(OtherCode) } :
          LET del == CIDRLocationUpdateDelete(d.cidr_blocks, cfg.cidr_blocks)
              put == CIDRLocationUpdatePut(d.cidr_blocks, cfg.cidr_blocks)
          IN  /\ calls' = Append(calls, CidrCall("DELETE_IF_EXISTS", del, e))
              /\ IF e # NoErr
                 THEN /\ Return(AppendErrorf(diags, "updating Route 53 CIDR Location",
                                     id, e))
                      /\ UNCHANGED << d, cidrBlocks >>
                 ELSE /\ cidrBlocks' = cidrBlocks \ del
                      /\ IF put # {}
                         THEN /\ pc' = "Update.put"
                              /\ UNCHANGED << d, outcome, diags >>
                         ELSE /\ d' = CidrData(d.name, cfg.cidr_blocks)
                              /\ Return(diags)
    /\ UNCHANGED << partition, rtype, defaultTags, ignoreKeys, cfg, id, isNew, op,
                    inputTags, lookup, polls >>

\* Update: ChangeCidrCollection PUT with the blocks newly configured
CIDRLocationUpdate_Put ==
    /\ pc = "Update.put"
    /\ \E e \in { NoErr, AwsErr(OtherCode) } :
          LET put == CIDRLocationUpdatePut(d.cidr_blocks, cfg.cidr_blocks)
          IN  /\ calls' = Append(calls, CidrCall("PUT", put, e))
              /\ IF e # NoErr
                 THEN /\ Return(AppendErrorf(diags, "updating Route 53 CIDR Location",
                                     id, e))
                      /\ UNCHANGED << d, cidrBlocks >>
                 ELSE /\ cidrBlocks' = cidrBlocks \cup put
                      /\ d' = CidrData(d.name, cfg.cidr_blocks)
                      /\ Return(diags)
    /\ UNCHANGED << partition, rtype, defaultTags, ignoreKeys, cfg, id, isNew, op,
                    inputTags, lookup, polls >>

\* Delete: ChangeCidrCollection DELETE_IF_EXISTS with the blocks of the state
CIDRLocationDelete_Call ==
    /\ pc = "Delete.call"
    /\ \E e \in { NoErr, AwsErr(OtherCode) } :
          /\ calls' = Append(calls, CidrCall("DELETE_IF_EXISTS", d.cidr_blocks, e))
          /\ IF e # NoErr
             THEN /\ Return(AppendErrorf(diags, "deleting Route 53 CIDR Location", id, e))
                  /\ cidrBlocks' = cidrBlocks
             ELSE /\ cidrBlocks' = cidrBlocks \ d.cidr_blocks
                  /\ Return(diags)
    /\ UNCHANGED << partition, rtype, defaultTags, ignoreKeys, cfg, d, id, isNew, op,
                    inputTags, lookup, polls >>

\* the check of a step that applied a configuration without error
testAccCheckCIDRLocationExists ==
    /\ Idle
    /\ op \in { "Create", "Update" }
    /\ outcome = "returned"
    /\ ~HasError(diags)
    /\ id # EmptyId
    /\ LET r == CheckLookup(cidrBlocks, id)
       IN  lookup' = [blocks |-> r.blocks, err |-> r.err, check |-> "exists"]
    /\ UNCHANGED << cidrBlocks, partition, rtype, defaultTags, ignoreKeys, cfg, d, id, isNew,
                    op, pc, inputTags, calls, polls, diags, outcome >>

\* the check at the end of a test, over the resource of the last state
testAccCheckCIDRLocationDestroy ==
    /\ Destroyed
    /\ LET r == CheckLookup(cidrBlocks, id)
       IN  lookup' = [blocks |-> r.blocks, err |-> r.err, check |-> "destroy"]
    /\ UNCHANGED << cidrBlocks, partition, rtype, defaultTags, ignoreKeys, cfg, d, id, isNew,
                    op, pc, inputTags, calls, polls, diags, outcome >>

CidrNext ==
    \/ TestStep_Config
    \/ TestStep_ImportState
    \/ TestStep_Destroy
    \/ CIDRLocationCreate_Call
    \/ CIDRLocationRead_Find
    \/ CIDRLocationUpdate_Delete
    \/ CIDRLocationUpdate_Put
    \/ CIDRLocationDelete_Call
    \/ testAccCheckCIDRLocationExists
    \/ testAccCheckCIDRLocationDestroy

CidrSpec == CidrInit /\ [][CidrNext]_vars

----------------------------------------------------------------------------
(* UpdateTags as a function of the old and the new tag map: every pair of   *)
(* maps of at most two keys, reserved keys included, is handed to it        *)

\* the tag maps of at most two keys
UpdateTagsInputs == { MergeTags(a, b) : a \in TagMaps(TagKeys), b \in TagMaps(TagKeys) }

TagInit ==
    /\ partition = "aws"
    /\ rtype = "ram"
    /\ defaultTags = EmptyTags
    /\ ignoreKeys = {}
    /\ \E new \in UpdateTagsInputs : cfg = [NoConfig EXCEPT !.tags = new]
    /\ \E old \in UpdateTagsInputs : d = [EmptyData EXCEPT !.tags_all = old]
    /\ id = IdOf("ram")
    /\ isNew = FALSE
    /\ op = "Update"
    /\ pc = "Update.tags"
    /\ inputTags = NilTags
    /\ calls = << >>
    /\ lookup = NoLookup
    /\ polls = 0
    /\ diags = << >>
    /\ outcome = "running"
    /\ cidrBlocks = {}

\* UpdateTags(ctx, conn, identifier, oldTagsMap, newTagsMap) up to its first
\* request, if it makes one
UpdateTags_Begin ==
    /\ pc = "Update.tags"
    /\ pc' = UpdateTagsFirst(d.tags_all, SetTagsDiff(defaultTags, cfg.tags, ignoreKeys))
    /\ UNCHANGED << cidrBlocks, partition, rtype, defaultTags, ignoreKeys, cfg, d, id, isNew,
                    op, inputTags, calls, lookup, polls, diags, outcome >>

TagNext ==
    \/ UpdateTags_Begin
    \/ Update_Untag
    \/ Update_Tag

TagSpec == TagInit /\ [][TagNext]_vars

----------------------------------------------------------------------------
(* The public domain names of a Lightsail container service on their own:   *)
(* every pair of an old and a new public_domain_names value                 *)

CertificateNames == { "c1", "c2" }
DomainLists == { << "a.example" >>, << "b.example" >> }

\* the values of public_domain_names: no block, or one block whose
\* certificate set names at least one certificate, each with its domain list
PublicDomainNamesValues ==
    { << >> } \cup
    { << m >> : m \in UNION { [cs -> DomainLists] : cs \in (SUBSET CertificateNames) \ { {} } } }

\* a Go map[string][]*string: nil, or the map m
NilMap == [nil |-> TRUE, m |-> << >>]
SomeMap(m) == [nil |-> FALSE, m |-> m]

\* expandContainerServicePublicDomainNames: nil for the empty list
expandContainerServicePublicDomainNames(raw) ==
    IF Len(raw) = 0 THEN NilMap ELSE SomeMap(raw[1])

\* a change that sends the new map and detaches nothing
containerServicePublicDomainNamesChanged_NoDetach(o, n) ==
    [names |-> expandContainerServicePublicDomainNames(n),
     changed |-> expandContainerServicePublicDomainNames(o)
                    # expandContainerServicePublicDomainNames(n)]

containerServicePublicDomainNamesChanged(o, n) ==
    LET oldPublicDomainNames == expandContainerServicePublicDomainNames(o)
        newPublicDomainNames == expandContainerServicePublicDomainNames(n)
        changed == oldPublicDomainNames # newPublicDomainNames
        old == oldPublicDomainNames.m
        new == newPublicDomainNames.m
    IN  IF changed
        THEN [names |-> SomeMap([c \in (DOMAIN old) \cup (DOMAIN new) |->
                                    IF c \in DOMAIN new THEN new[c] ELSE << >>]),
              changed |-> TRUE]
        ELSE [names |-> newPublicDomainNames, changed |-> FALSE]

\* the result before containerServicePublicDomainNamesChanged has run
NotCompared == [names |-> NilMap, changed |-> FALSE, compared |-> FALSE]

DomainInit ==
    /\ partition = "aws"
    /\ rtype = "lightsail"
    /\ defaultTags = EmptyTags
    /\ ignoreKeys = {}
    /\ \E n \in PublicDomainNamesValues : cfg = [public_domain_names |-> n]
    /\ \E o \in PublicDomainNamesValues : d = [public_domain_names |-> o]
    /\ id = IdOf("lightsail")
    /\ isNew = FALSE
    /\ op = "Update"
    /\ pc = "Update.names"
    /\ inputTags = NilTags
    /\ calls = << >>
    /\ lookup = NotCompared
    /\ polls = 0
    /\ diags = << >>
    /\ outcome = "running"
    /\ cidrBlocks = {}

\* publicDomainNames, _ := containerServicePublicDomainNamesChanged(d)
ContainerServiceUpdate_PublicDomainNames ==
    /\ pc = "Update.names"
    /\ LET r == containerServicePublicDomainNamesChanged(d.public_domain_names,
                                                         cfg.public_domain_names)
       IN  lookup' = [names |-> r.names, changed |-> r.changed, compared |-> TRUE]
    /\ pc' = "Update.call"
    /\ UNCHANGED << cidrBlocks, partition, rtype, defaultTags, ignoreKeys, cfg, d, id, isNew,
                    op, inputTags, calls, polls, diags, outcome >>

DomainNext == ContainerServiceUpdate_PublicDomainNames

DomainSpec == DomainInit /\ [][DomainNext]_vars

----------------------------------------------------------------------------
(* The Elastic Beanstalk solution stack data source.  A solution stack is   *)
(* known by its release number: the higher the number, the more recent the  *)
(* stack.  The service lists the stacks in an order of its own.             *)

MaxStacks == 3

SolutionStacks == 1..MaxStacks

\* the name of the solution stack with release number n
StackName(n) == << "stack", n >>

\* the lists ListAvailableSolutionStacks may return: no stack twice
StackLists ==
    { l \in SeqsUpTo(SolutionStacks, MaxStacks) :
         \A i \in 1..Len(l), j \in 1..Len(l) : l[i] = l[j] => i = j }

\* name_regex, as the set of the stacks whose name it matches
NameRegexes == SUBSET SolutionStacks

\* "for _, solutionStack := range resp.SolutionStacks": the stacks of the
\* list whose name matches, in the order of the list
FilterStacks(list, regex) ==
    LET Matches(n) == n \in regex IN SelectSeq(list, Matches)

mostRecentSolutionStack(solutionStacks) ==
    solutionStacks[1]

\* dataSourceSolutionStackRead after the filter: the stack selected, or the
\* error
SelectSolutionStack(filtered, recent) ==
    IF Len(filtered) < 1
    THEN [stack |-> 0, err |-> FmtError("Your query returned no results")]
    ELSE IF Len(filtered) = 1 THEN [stack |-> filtered[1], err |-> NoErr]
    ELSE IF recent THEN [stack |-> mostRecentSolutionStack(filtered), err |-> NoErr]
    ELSE [stack |-> 0, err |-> FmtError("Your query returned more than one result")]

StackInit ==
    /\ partition = "aws"
    /\ rtype = "elasticbeanstalk_solution_stack"
    /\ defaultTags = EmptyTags
    /\ ignoreKeys = {}
    /\ \E r \in NameRegexes, recent \in BOOLEAN :
          cfg = [name_regex |-> r, most_recent |-> recent]
    /\ d = [name |-> EmptyId]
    /\ id = EmptyId
    /\ isNew = FALSE
    /\ op = "Read"
    /\ pc = "Read.lookup"
    /\ inputTags = NilTags
    /\ calls = << >>
    /\ lookup = [stacks |-> << >>, err |-> NoErr]
    /\ polls = 0
    /\ diags = << >>
    /\ outcome = "running"
    /\ cidrBlocks = {}

\* ListAvailableSolutionStacks and the rest of dataSourceSolutionStackRead
SolutionStackRead_List ==
    /\ pc = "Read.lookup"
    /\ \E resp \in { [stacks |-> l, err |-> NoErr] : l \in StackLists }
                   \cup { [stacks |-> << >>, err |-> AwsErr(OtherCode)] } :
          LET sel == SelectSolutionStack(FilterStacks(resp.stacks, cfg.name_regex),
                                         cfg.most_recent)
          IN  /\ calls' = Append(calls, Call("ListAvailableSolutionStacks", FALSE, resp.err))
              /\ lookup' = resp
              /\ IF resp.err # NoErr
                 THEN /\ Return(AppendErrorf(diags,
                                 "reading Elastic Beanstalk Solution Stack", EmptyId, resp.err))
                      /\ UNCHANGED << id, d >>
                 ELSE IF sel.err # NoErr
                 THEN /\ Return(AppendErrorf(diags,
                                 "reading Elastic Beanstalk Solution Stack", EmptyId, sel.err))
                      /\ UNCHANGED << id, d >>
                 ELSE /\ id' = StackName(sel.stack)
                      /\ d' = [name |-> StackName(sel.stack)]
                      /\ Return(diags)
    /\ UNCHANGED << cidrBlocks, partition, rtype, defaultTags, ignoreKeys, cfg, isNew, op,
                    inputTags, polls >>

StackNext == SolutionStackRead_List

StackSpec == StackInit /\ [][StackNext]_vars

----------------------------------------------------------------------------
(* The validator of wait_until_stable_timeout on its own: every string of   *)
(* a sign, two digits and the unit of seconds up to a length                *)

MaxDurationLen == 4

DurationChars == { "-", "0", "1", "s" }
Digits == { "0", "1" }

DigitValue(c) == IF c = "1" THEN 1 ELSE 0

\* the number of digits str starts with
RECURSIVE LeadingDigits(_)
LeadingDigits(str) ==
    IF str = << >> \/ str[1] \notin Digits THEN 0 ELSE 1 + LeadingDigits(Tail(str))

\* the number of characters up to the next digit: the unit of a group
RECURSIVE LeadingUnit(_)
LeadingUnit(str) ==
    IF str = << >> \/ str[1] \in Digits THEN 0 ELSE 1 + LeadingUnit(Tail(str))

\* the decimal value of a string of digits
RECURSIVE Decimal(_)
Decimal(digits) ==
    IF digits = << >> THEN 0
    ELSE 10 * Decimal(SubSeq(digits, 1, Len(digits) - 1)) + DigitValue(digits[Len(digits)])

\* time.ParseDuration after the sign: groups of a number and a unit, summed
\* up in seconds; the only unit of DurationChars is "s"
RECURSIVE ParseGroups(_)
ParseGroups(str) ==
    IF str = << >> THEN [seconds |-> 0, ok |-> TRUE]
    ELSE LET n == LeadingDigits(str)
             rest == SubSeq(str, n + 1, Len(str))
             u == LeadingUnit(rest)
         IN  IF n = 0 \/ SubSeq(rest, 1, u) # << "s" >>
             THEN [seconds |-> 0, ok |-> FALSE]
             ELSE LET more == ParseGroups(SubSeq(rest, u + 1, Len(rest)))
                  IN  [seconds |-> IF more.ok THEN Decimal(SubSeq(str, 1, n)) + more.seconds
                                   ELSE 0,
                       ok |-> more.ok]

\* time.ParseDuration: an optional sign, then "0" alone or groups; a string
\* that is not a duration yields the zero duration and an error
ParseDuration(value) ==
    LET neg == value # << >> /\ value[1] = "-"
        str == IF neg THEN Tail(value) ELSE value
        g == ParseGroups(str)
    IN  IF str = << "0" >> THEN [duration |-> 0, err |-> NoErr]
        ELSE IF str = << >> \/ ~g.ok
        THEN [duration |-> 0, err |-> FmtError("time: invalid duration")]
        ELSE [duration |-> IF neg THEN 0 - g.seconds ELSE g.seconds, err |-> NoErr]

\* the ValidateFunc of wait_until_stable_timeout: the errors it appends
ValidateWaitUntilStableTimeout(value) ==
    LET p == ParseDuration(value)
    IN  (IF p.err # NoErr THEN { "cannot be parsed as a duration" } ELSE {})
        \cup (IF p.duration < 0 THEN { "must be greater than zero" } ELSE {})

DurationInit ==
    /\ partition = "aws"
    /\ rtype = "ecs"
    /\ defaultTags = EmptyTags
    /\ ignoreKeys = {}
    /\ \E v \in SeqsUpTo(DurationChars, MaxDurationLen) :
          cfg = [wait_until_stable_timeout |-> v]
    /\ d = NoParts
    /\ id = EmptyId
    /\ isNew = FALSE
    /\ op = "Validate"
    /\ pc = "Validate.timeout"
    /\ inputTags = NilTags
    /\ calls = << >>
    /\ lookup = NotParsed
    /\ polls = 0
    /\ diags = << >>
    /\ outcome = "running"
    /\ cidrBlocks = {}

\* the schema validation of wait_until_stable_timeout
TaskSetValidate_Timeout ==
    /\ pc = "Validate.timeout"
    /\ LET p == ParseDuration(cfg.wait_until_stable_timeout)
       IN  lookup' = [duration |-> p.duration, err |-> p.err,
                      errors |-> ValidateWaitUntilStableTimeout(cfg.wait_until_stable_timeout)]
    /\ pc' = "done"
    /\ outcome' = "returned"
    /\ UNCHANGED << cidrBlocks, partition, rtype, defaultTags, ignoreKeys, cfg, d, id, isNew,
                    op, inputTags, calls, polls, diags >>

DurationNext == TaskSetValidate_Timeout

DurationSpec == DurationInit /\ [][DurationNext]_vars

----------------------------------------------------------------------------
(* Properties *)

LastCall == calls[Len(calls)]

\* the latest remote call was a DescribeRepositories probe of the ECR finder
EcrLooked == rtype = "ecr" /\ Len(calls) > 0 /\ LastCall.api = "DescribeRepositories"

\* the describe response held exactly one record, and it carries the name asked for
ExactMatch ==
    /\ LastCall.err = NoErr
    /\ Len(lookup.records) = 1
    /\ ~lookup.records[1].nil
    /\ lookup.records[1].name = lookup.name

\* the latest lookup reported the resource absent: the remote not-found error
\* code, no record, or a record of another name
LookupNotFound ==
    /\ Len(calls) > 0
    /\ \/ NotFound(lookup.err)
       \/ rtype = "ecs" /\ ErrCodeEquals(lookup.err, TaskSetNotFoundCodes)

\* the error code with which the delete call of a resource type reports absence
NotFoundCodeOf(t) ==
    CASE t = "ecr" -> "RepositoryNotFoundException"
      [] t = "ram" -> "UnknownResourceException"
      [] t = "fsx" -> "VolumeNotFound"
      [] t = "ecs" -> "TaskSetNotFoundException"
      [] OTHER -> "NotFoundException"

\* C1: FindRepositoryByName returns a record exactly when the describe call
\* returned without error exactly one record whose name is the requested name;
\* in every other case it returns an error and no record.
C1_FinderReturnsExactMatchOnly ==
    EcrLooked =>
        /\ ~lookup.out.nil <=> ExactMatch
        /\ ~lookup.out.nil => lookup.err = NoErr /\ lookup.out = lookup.records[1]
        /\ lookup.out.nil => lookup.err # NoErr

C1_Witness == EcrLooked /\ ~lookup.out.nil /\ lookup.out.name = RepoName

\* C2: FindRepositoryByName returns a NotFound-kind error when the describe
\* call fails with RepositoryNotFoundException, when it returns no record or a
\* nil first record, and when the single record has another name.
C2_FinderNotFoundCases ==
    EcrLooked =>
        /\ ErrCodeEquals(LastCall.err, { "RepositoryNotFoundException" })
              => NotFound(lookup.err)
        /\ (LastCall.err = NoErr /\ (Len(lookup.records) = 0 \/ lookup.records[1].nil))
              => NotFound(lookup.err)
        /\ (LastCall.err = NoErr /\ Len(lookup.records) = 1 /\ ~lookup.records[1].nil
                /\ lookup.records[1].name # lookup.name)
              => NotFound(lookup.err)

C2_Witness ==
    /\ EcrLooked
    /\ Len(lookup.records) = 1
    /\ ~lookup.records[1].nil
    /\ lookup.records[1].name # lookup.name
    /\ NotFound(lookup.err)

\* what C3 says of a describe response that is ambiguous
TooManyIsTerminal ==
    /\ lookup.err = TooManyResultsError
    /\ ~NotFound(lookup.err)
    /\ pc = "done"
    /\ id # EmptyId
    /\ op = "Read" => Cardinality(CallsOf("DescribeRepositories")) = 1

C4_TrackedReadDropsOnNotFound ==
    (/\ op = "Read"
     /\ pc = "done"
     /\ rtype \in { "ecr", "ram", "ecs" }
     /\ LookupNotFound)
        => id = EmptyId /\ outcome = "returned" /\ ~HasError(diags)

\* C5: when the Read of a newly created ECR repository or ECS task set finds
\* the resource absent, the identity stays set; the ECR Read probes again until
\* the propagation timeout, and Read then returns an error diagnostic.
C5_NewResourceReadNotFound ==
    (/\ op = "Create"
     /\ isNew
     /\ rtype \in { "ecr", "ecs" }
     /\ Len(calls) > 0
     /\ LastCall.api \in { "DescribeRepositories", "DescribeTaskSets" }
     /\ LookupNotFound)
        => /\ id # EmptyId
           /\ \/ rtype = "ecr" /\ pc = "Read.lookup"
                    /\ Cardinality(CallsOf("DescribeRepositories")) < PropagationPolls
              \/ pc = "done" /\ outcome = "returned" /\ HasError(diags)

\* C6: for every resource type, when the delete call reports the not-found
\* error code Delete returns no diagnostics and makes no further remote call.
C6_DeleteIdempotent ==
    (/\ op = "Delete"
     /\ Len(calls) >= 1
     /\ ErrCodeEquals(calls[1].err, { NotFoundCodeOf(rtype) }))
        => pc = "done" /\ outcome = "returned" /\ diags = << >> /\ Len(calls) = 1

C6_Witness ==
    /\ op = "Delete"
    /\ rtype = "fsx"
    /\ Len(calls) = 1
    /\ ErrCodeEquals(calls[1].err, { "VolumeNotFound" })
    /\ pc = "done"

\* C7: when DeleteRepository fails with RepositoryNotEmptyException, Delete
\* returns one error diagnostic that points to force_delete, after exactly one
\* delete call and without entering the deletion wait.
C7_NotEmptyIsTerminal ==
    (/\ rtype = "ecr"
     /\ op = "Delete"
     /\ Len(calls) >= 1
     /\ ErrCodeEquals(calls[1].err, { "RepositoryNotEmptyException" }))
        => /\ pc = "done"
           /\ outcome = "returned"
           /\ Len(calls) = 1
           /\ Len(diags) = 1
           /\ diags[1].severity = "error"
           /\ diags[1].summary = "ECR Repository not empty, consider using force_delete"
           /\ diags[1].err = calls[1].err

C7_Witness ==
    /\ rtype = "ecr"
    /\ op = "Delete"
    /\ Len(calls) = 1
    /\ ErrCodeEquals(calls[1].err, { "RepositoryNotEmptyException" })
    /\ HasError(diags)

\* C8: after a delete call that succeeded, Delete of an ECR repository, RAM
\* resource share or FSx volume returns without error only if the last probe
\* of the deletion wait saw the resource absent; a resource still seen when
\* the wait ends makes Delete return an error.
C8_DeleteWaitsForAbsence ==
    (/\ op = "Delete"
     /\ pc = "done"
     /\ rtype \in { "ecr", "ram", "fsx" }
     /\ Len(calls) >= 1
     /\ calls[1].err = NoErr)
        => /\ Len(calls) >= 2
           /\ ~HasError(diags) => NotFound(lookup.err)
           /\ ~lookup.out.nil => HasError(diags)

C8_Witness ==
    /\ op = "Delete"
    /\ pc = "done"
    /\ rtype = "ram"
    /\ Len(calls) = 1 + DeletePolls
    /\ calls[1].err = NoErr
    /\ ~HasError(diags)
    /\ NotFound(lookup.err)

\* the CreateRepository calls of the running Create
CreateRepositoryCalls == CallsOf("CreateRepository")

\* the first CreateRepository call carried tags and was rejected, on a
\* partition other than "aws", with the partition-unsupported signature
TagOnCreateRejected ==
    /\ calls[1].tagged
    /\ partition # "aws"
    /\ ErrCodeEquals(calls[1].err, { ISOUnsupportedCode })

\* C9: resourceRepositoryCreate issues CreateRepository a second time, without
\* tags, only if the first attempt carried tags, the partition is not "aws" and
\* the first error has the partition-unsupported signature; otherwise the call
\* is issued once and its error, if any, is returned.  There are at most two.
C9_CreateRetriedOnlyWithoutTags ==
    (rtype = "ecr" /\ op = "Create" /\ Len(calls) >= 1)
        => /\ Cardinality(CreateRepositoryCalls) <= 2
           /\ Cardinality(CreateRepositoryCalls) = 2
                 => TagOnCreateRejected /\ ~calls[2].tagged
           /\ (TagOnCreateRejected /\ Cardinality(CreateRepositoryCalls) = 1)
                 => pc = "Create.call"
           /\ (~TagOnCreateRejected /\ calls[1].err # NoErr)
                 => /\ pc = "done"
                    /\ Len(calls) = 1
                    /\ HasError(diags)
                    /\ diags[1].err = calls[1].err
           /\ (Cardinality(CreateRepositoryCalls) = 2 /\ calls[2].err # NoErr)
                 => /\ pc = "done"
                    /\ Len(calls) = 2
                    /\ HasError(diags)
                    /\ diags[1].err = calls[2].err

C9_Witness ==
    /\ rtype = "ecr"
    /\ op = "Create"
    /\ Cardinality(CreateRepositoryCalls) = 2
    /\ calls[2].err = NoErr
    /\ id # EmptyId

\* C10: on a partition other than "aws", when CreateTaskSet with tags is
\* rejected with the partition-unsupported signature, resourceTaskSetCreate
\* issues the create call again without tags.
C10_TaskSetCreateRetriedWithoutTags ==
    (/\ rtype = "ecs"
     /\ op = "Create"
     /\ pc = "done"
     /\ partition # "aws"
     /\ Len(calls) >= 1
     /\ calls[1].tagged
     /\ ErrCodeEquals(calls[1].err, { ISOUnsupportedCode }))
        => \E i \in CallsOf("CreateTaskSet") : ~calls[i].tagged

\* the summaries of the diagnostics that report a failed tag call after create
TagAfterCreateSummaries ==
    { "adding tags after create for ECR Repository",
      "ECS tagging failed adding tags after create for Task Set" }

\* the running Create issued the tag call after create and the remote answered
\* it with the partition-unsupported signature
DeferredTagCallUnsupported ==
    /\ op = "Create"
    /\ rtype \in { "ecr", "ecs" }
    /\ \E i \in CallsOf("TagResource") : ErrorISOUnsupported(partition, calls[i].err)

\* the running Create issued the tag call after create and it failed
DeferredTagCallFailed ==
    /\ op = "Create"
    /\ rtype \in { "ecr", "ecs" }
    /\ \E i \in CallsOf("TagResource") : calls[i].err # NoErr

\* C11: when the tag call after create fails with the partition-unsupported
\* signature and the resource has no tags of its own, Create goes on to Read
\* and returns no error diagnostic for the tagging failure.
C11_DefaultOnlyTagFailureTolerated ==
    (DeferredTagCallUnsupported /\ cfg.tags = EmptyTags)
        => /\ LastCall.api = "TagResource" => pc = "Read.lookup" /\ diags = << >>
           /\ \A j \in 1..Len(diags) : diags[j].summary \notin TagAfterCreateSummaries
           /\ pc = "done" => LastCall.api # "TagResource"

C11_Witness ==
    /\ DeferredTagCallUnsupported
    /\ cfg.tags = EmptyTags
    /\ pc = "done"
    /\ outcome = "returned"
    /\ ~HasError(diags)
    /\ d.arn # ""

\* the running Create was refused its tagged create request with the
\* partition-unsupported signature and then created the resource without tags
CreatedWithoutTags ==
    /\ op = "Create"
    /\ rtype \in { "ecr", "ecs" }
    /\ partition # "aws"
    /\ \E i, j \in CallsOf("CreateRepository") \cup CallsOf("CreateTaskSet") :
          /\ i < j
          /\ calls[i].tagged
          /\ ErrorISOUnsupported(partition, calls[i].err)
          /\ ~calls[j].tagged
          /\ calls[j].err = NoErr

\* C12: when Create succeeds without tags on a partition without tag-on-create
\* support and only default tags are configured, the diagnostics Create
\* returns contain a warning for the tagging failure.
C12_DefaultOnlyTagFailureWarns ==
    (/\ CreatedWithoutTags
     /\ cfg.tags = EmptyTags
     /\ pc = "done"
     /\ outcome = "returned"
     /\ ~HasError(diags))
        => \E j \in 1..Len(diags) : diags[j].severity = "warning"

\* C13: when the tag call after create fails, with whatever error, and the
\* resource has a tag of its own, Create returns an error diagnostic for it.
C13_ExplicitTagFailureIsError ==
    (DeferredTagCallFailed /\ cfg.tags # EmptyTags)
        => /\ pc = "done"
           /\ outcome = "returned"
           /\ LastCall.api = "TagResource"
           /\ Len(diags) = 1
           /\ diags[1].severity = "error"
           /\ diags[1].summary \in TagAfterCreateSummaries
           /\ diags[1].err = LastCall.err

C13_Witness ==
    /\ DeferredTagCallUnsupported
    /\ cfg.tags # EmptyTags
    /\ HasError(diags)

\* the request of call i writes a tag the resource configures itself
WritesOwnTag(i) ==
    /\ calls[i].api \in { "CreateRepository", "CreateTaskSet", "TagResource" }
    /\ \E k \in (DOMAIN calls[i].tags) \cap (DOMAIN cfg.tags) :
          calls[i].tags[k] = cfg.tags[k]

\* C14: whenever Create or Update returns without an error diagnostic and the
\* resource configures tags of its own, the remote API has accepted them: a
\* Create has sent them in a request that succeeded, and no tag request of an
\* Update that carried one of them has failed.
C14_ExplicitTagsNeverDropped ==
    (/\ op \in { "Create", "Update" }
     /\ rtype \in { "ecr", "ecs" }
     /\ pc = "done"
     /\ outcome = "returned"
     /\ ~HasError(diags)
     /\ cfg.tags # EmptyTags)
        => /\ op = "Create" =>
                 \E i \in 1..Len(calls) :
                    /\ WritesOwnTag(i)
                    /\ calls[i].err = NoErr
                    /\ \A k \in DOMAIN cfg.tags :
                          k \in DOMAIN calls[i].tags /\ calls[i].tags[k] = cfg.tags[k]
           /\ \A i \in 1..Len(calls) : WritesOwnTag(i) /\ op = "Update" => calls[i].err = NoErr

\* the create calls of the resource types
CreateAPIs ==
    { "CreateRepository", "CreateResourceShare", "CreateTaskSet", "CreateVolume",
      "CreateContainerService" }

\* C15: the tags a Create sends in its create request are the union of the
\* provider's default tags and the tags of the resource, and a key both have
\* is sent with the value of the resource.
C15_CreateSendsMergedTags ==
    (op = "Create" /\ Len(calls) >= 1)
        => LET sent == calls[1]
               keys == (DOMAIN defaultTags) \cup (DOMAIN cfg.tags)
           IN  /\ sent.api \in CreateAPIs
               /\ sent.tagged <=> keys # {}
               /\ DOMAIN sent.tags = keys
               /\ \A k \in DOMAIN cfg.tags : sent.tags[k] = cfg.tags[k]
               /\ \A k \in (DOMAIN defaultTags) \ (DOMAIN cfg.tags) :
                     sent.tags[k] = defaultTags[k]

C15_Witness ==
    /\ op = "Create"
    /\ rtype = "ram"
    /\ Len(calls) >= 1
    /\ calls[1].err = NoErr
    /\ \E k \in (DOMAIN defaultTags) \cap (DOMAIN cfg.tags) :
          defaultTags[k] # cfg.tags[k] /\ calls[1].tags[k] = cfg.tags[k]

\* UpdateTags(arn, o, n) of the running Update has returned without error and
\* the Read that ends the Update has not started
UpdateTagsSucceeded ==
    /\ op = "Update"
    /\ pc = "Read.lookup"
    /\ \A i \in 1..Len(calls) : calls[i].err = NoErr

\* the keys the remove request of the running Update named, if there was one
KeysRemoved == UNION { DOMAIN calls[i].tags : i \in CallsOf("UntagResource") }

\* the keys the add request of the running Update wrote, if there was one
KeysWritten == UNION { DOMAIN calls[i].tags : i \in CallsOf("TagResource") }

\* the value the add request wrote for key k
ValueWritten(k) ==
    calls[CHOOSE i \in CallsOf("TagResource") : k \in DOMAIN calls[i].tags].tags[k]

\* the tags of a remote that held old, after the requests of the running Update
RemoteAfterUpdate(old) ==
    [k \in ((DOMAIN old) \ KeysRemoved) \cup KeysWritten |->
        IF k \in KeysWritten THEN ValueWritten(k) ELSE old[k]]

\* C16: UpdateTags removes exactly the keys old has and new lacks, writes
\* exactly the entries of new that old lacks or holds with another value, and
\* leaves a remote that held old holding exactly new.
C16_UpdateTagsAppliesDiff ==
    UpdateTagsSucceeded =>
        LET old == d.tags_all
            new == SetTagsDiff(defaultTags, cfg.tags, ignoreKeys)
        IN  /\ Cardinality(CallsOf("UntagResource")) <= 1
            /\ Cardinality(CallsOf("TagResource")) <= 1
            /\ KeysRemoved = (DOMAIN old) \ (DOMAIN new)
            /\ KeysWritten = { k \in DOMAIN new : k \notin DOMAIN old \/ old[k] # new[k] }
            /\ \A k \in KeysWritten : ValueWritten(k) = new[k]
            /\ CallsOf("UntagResource") # {} <=> KeysRemoved # {}
            /\ CallsOf("TagResource") # {} <=> KeysWritten # {}
            /\ RemoteAfterUpdate(old) = new

C16_Witness ==
    /\ UpdateTagsSucceeded
    /\ KeysRemoved # {}
    /\ KeysWritten # {}
    /\ \E k \in KeysWritten : k \in DOMAIN d.tags_all

\* the requests that write tags remotely
TagWritingAPIs ==
    { "CreateRepository", "CreateResourceShare", "CreateTaskSet", "TagResource" }

\* C17: no request that writes tags remotely carries a key the ignore
\* predicate matches: neither a reserved aws: key nor a key of the configured
\* ignore-tags list.
C17_NoIgnoredKeyWritten ==
    \A i \in 1..Len(calls) :
        calls[i].api \in TagWritingAPIs
            => (DOMAIN calls[i].tags) \cap (AWSTagKeys \cup ignoreKeys) = {}

\* the entry of key k in the tag map m is an entry of the default tags
DefaultEntry(m, k) == k \in DOMAIN defaultTags /\ defaultTags[k] = m[k]

\* a Read has returned without error and has set the tag attributes
ReadSucceeded ==
    /\ pc = "done"
    /\ outcome = "returned"
    /\ ~HasError(diags)
    /\ id # EmptyId
    /\ Len(calls) > 0
    /\ LastCall.err = NoErr
    /\ LastCall.api \in { "ListTagsForResource", "DescribeTaskSets", "GetApi",
                          "ListResourceSharePermissions" }

TransientCreateError(err) ==
    \/ err.code \in { "ClusterNotFoundException", "ServiceNotFoundException",
                      "TaskSetNotFoundException" }
    \/ err.code = "InvalidParameterException"
          /\ err.msg = "does not have an associated load balancer"

\* C19: retryTaskSetCreate issues CreateTaskSet again only after an error
\* that is transient; after any other error, and after success, no further
\* create call with the same request follows, whatever budget remains.
C19_CreateRetriedOnlyWhileTransient ==
    (rtype = "ecs" /\ op = "Create") =>
        \A i \in CallsOf("CreateTaskSet") :
            /\ (i + 1 \in CallsOf("CreateTaskSet") /\ calls[i + 1].tagged = calls[i].tagged)
                  => TransientCreateError(calls[i].err)
            /\ ~TransientCreateError(calls[i].err)
                  => \A j \in CallsOf("CreateTaskSet") :
                        j > i => calls[j].tagged # calls[i].tagged
            /\ (i = 1 /\ ~TransientCreateError(calls[i].err))
                  => Cardinality(CallsOf("CreateTaskSet")) = 1

C19_Witness ==
    /\ rtype = "ecs"
    /\ op = "Create"
    /\ Len(calls) = 1
    /\ calls[1].err = AwsErr(OtherCode)
    /\ pc = "done"
    /\ CreatePolls > 1

\* the running Create has had every CreateTaskSet attempt of its budget
\* answered with a transient error
CreateAlwaysTransient ==
    /\ rtype = "ecs"
    /\ op = "Create"
    /\ Cardinality(CallsOf("CreateTaskSet")) >= CreatePolls
    /\ \A i \in CallsOf("CreateTaskSet") : TransientCreateError(calls[i].err)

\* the running Delete of a repository has seen the repository at every probe
\* of the budget of its deletion wait
RepositoryStaysVisible ==
    /\ rtype = "ecr"
    /\ op = "Delete"
    /\ Cardinality(CallsOf("DescribeRepositories")) >= DeletePolls
    /\ ~lookup.out.nil

Parsed == pc = "done" /\ rtype = "ecs" /\ lookup # NotParsed

\* number of delimiters in the string str
Delimiters(str) == Cardinality({ i \in 1..Len(str) : str[i] = "," })

\* C21 as stated: for every triple of non-empty parts, TaskSetParseID applied
\* to the identity Create formats from them returns the three parts in
\* order and no error.
C21_IdentityRoundTrip_AsStated ==
    (Parsed /\ op = "Create") =>
        /\ lookup.err = NoErr
        /\ PartsData(lookup.taskSetId, lookup.service, lookup.cluster) = d

\* C21, amended: for every triple of non-empty parts none of which holds
\* the delimiter ',', TaskSetParseID applied to the identity Create formats
\* from them returns the three parts in order and no error.
C21_IdentityRoundTrip ==
    (Parsed /\ op = "Create"
        /\ Delimiters(d.taskSetId) + Delimiters(d.service) + Delimiters(d.cluster) = 0) =>
        /\ lookup.err = NoErr
        /\ PartsData(lookup.taskSetId, lookup.service, lookup.cluster) = d

C21_Witness ==
    /\ Parsed /\ op = "Create"
    /\ d = PartsData(<< "a" >>, << "a", "a" >>, << "a" >>)
    /\ lookup.err = NoErr
    /\ lookup.service = << "a", "a" >>

\* the string has an empty part: it starts or ends with the delimiter, or
\* two delimiters are neighbours
HasEmptyPart(str) ==
    \/ Len(str) = 0
    \/ str[1] = ","
    \/ str[Len(str)] = ","
    \/ \E i \in 1..(Len(str) - 1) : str[i] = "," /\ str[i + 1] = ","

\* C22: TaskSetParseID returns an error and three empty strings for every
\* input that has fewer or more than three parts separated by ',', and for
\* every input one of whose three parts is empty.
C22_MalformedIdentityRejected ==
    (Parsed /\ (Delimiters(id) # 2 \/ HasEmptyPart(id))) =>
        /\ lookup.err # NoErr
        /\ lookup.taskSetId = << >>
        /\ lookup.service = << >>
        /\ lookup.cluster = << >>

C22_Witness ==
    /\ Parsed /\ op = "Read"
    /\ id = << "a", ",", ",", "a" >>
    /\ lookup.err # NoErr
    /\ lookup.taskSetId = << >>

\* the lookup l reported the resource absent
FoundAbsent(l) ==
    \/ NotFound(l.err)
    \/ ErrCodeEquals(l.err, { NotFoundCodeOf(rtype) })
    \/ rtype = "ecs" /\ ErrCodeEquals(l.err, TaskSetNotFoundCodes)

\* the positions inside a Read, whichever handler runs it
ReadPositions == { "Read.lookup", "Read.retry", "Read.tags", "Read.permissions" }

\* this step of a Create assigns the identity, right after a create call
\* that succeeded
IdentitySetByCreate ==
    /\ op = "Create"
    /\ pc \notin ReadPositions
    /\ id = EmptyId
    /\ id' # EmptyId
    /\ Len(calls') = Len(calls) + 1
    /\ calls'[Len(calls')].api \in CreateAPIs
    /\ calls'[Len(calls')].err = NoErr

\* this step of a Read clears the identity
IdentityClearedByRead ==
    /\ pc \in ReadPositions
    /\ id # EmptyId
    /\ id' = EmptyId

\* C23 as stated: the identity is assigned once, in Create and only after
\* the create call succeeded; no later operation changes it to another
\* non-empty value, and the only other change is a Read clearing it when the
\* resource is found absent.
C23_IdentityAssignedOnce_AsStated ==
    [][id' # id =>
          \/ IdentitySetByCreate
          \/ IdentityClearedByRead /\ FoundAbsent(lookup')]_vars

\* C23, amended: the identity is assigned once, in Create and only after the
\* create call succeeded; no later operation changes it to another non-empty
\* value, and the only other change is a Read clearing it when the resource
\* is found absent or, for the RAM share, found in a status other than ACTIVE.
C23_IdentityAssignedOnce ==
    [][id' # id =>
          \/ IdentitySetByCreate
          \/ IdentityClearedByRead /\ FoundAbsent(lookup')
          \/ /\ IdentityClearedByRead
             /\ rtype = "ram"
             /\ lookup'.err = NoErr
             /\ lookup'.out.status # "ACTIVE"]_vars

C23_Witness ==
    /\ rtype = "lightsail"
    /\ op = "Create"
    /\ pc = "Create.created"
    /\ id = IdOf("lightsail")
    /\ Len(calls) = 1
    /\ calls[1].api = "CreateContainerService"
    /\ calls[1].err = NoErr

\* the calls of an Update that change the remote resource
MutatingAPIs ==
    { "PutImageTagMutability", "PutImageScanningConfiguration", "UpdateResourceShare",
      "UpdateTaskSet", "UntagResource", "TagResource" }

Issued(apis) == \E i \in 1..Len(calls) : calls[i].api \in apis

Failed(apis) == \E i \in 1..Len(calls) : calls[i].api \in apis /\ calls[i].err # NoErr

\* the Update of an ECR repository or a RAM share has made its mutating
\* calls: it failed, or it is about to start the Read that ends it
UpdateCallsMade ==
    /\ op = "Update"
    /\ rtype \in { "ecr", "ram" }
    /\ pc \in { "Read.lookup", "done" }
    /\ \A i \in 1..Len(calls) : calls[i].api \in MutatingAPIs

\* tags_all differs between the old and the new desired state
TagsAllChanged == SetTagsDiff(defaultTags, cfg.tags, ignoreKeys) # d.tags_all

\* C24: Update issues the scoped mutating call of a field group if and only
\* if that group changed (ECR: PutImageTagMutability, PutImageScanningConfiguration,
\* UpdateTags; RAM: UpdateResourceShare for name or allow_external_principals);
\* with no changed group it issues no mutating call, and a failing call stops
\* the Update before the later groups are attempted.
C24_UpdateCallsChangedGroupsOnly ==
    UpdateCallsMade =>
        /\ rtype = "ecr" =>
              /\ Issued({ "PutImageTagMutability" })
                    <=> "image_tag_mutability" \in cfg.changed
              /\ Issued({ "PutImageScanningConfiguration" })
                    <=> /\ "image_scanning_configuration" \in cfg.changed
                        /\ ~Failed({ "PutImageTagMutability" })
              /\ Issued({ "UntagResource", "TagResource" })
                    <=> /\ TagsAllChanged
                        /\ ~Failed({ "PutImageTagMutability",
                                     "PutImageScanningConfiguration" })
        /\ rtype = "ram" =>
              /\ Issued({ "UpdateResourceShare" })
                    <=> cfg.changed \cap { "name", "allow_external_principals" } # {}
              /\ Issued({ "UntagResource", "TagResource" })
                    <=> TagsAllChanged /\ ~Failed({ "UpdateResourceShare" })
        /\ Failed({ "PutImageTagMutability", "PutImageScanningConfiguration",
                    "UpdateResourceShare" })
              => pc = "done" /\ HasError(diags) /\ calls[Len(calls)].err # NoErr
        /\ \A i \in 1..Len(calls) : \A j \in 1..Len(calls) :
              calls[i].api = calls[j].api => i = j

C24_Witness ==
    /\ UpdateCallsMade
    /\ rtype = "ecr"
    /\ pc = "done"
    /\ cfg.changed = { "image_tag_mutability", "image_scanning_configuration" }
    /\ TagsAllChanged
    /\ Len(calls) = 2
    /\ calls[2].api = "PutImageScanningConfiguration"
    /\ calls[2].err # NoErr

\* an Update in which nothing that has a call changed makes no call
C24_NoChangeWitness ==
    /\ UpdateCallsMade
    /\ cfg.changed = { "force_delete" }
    /\ ~TagsAllChanged
    /\ calls = << >>

\* the invocation returned an error diagnostic right after a failed call of
\* one of apis
FailedOn(apis) ==
    /\ pc = "done"
    /\ outcome = "returned"
    /\ HasError(diags)
    /\ Len(calls) > 0
    /\ LastCall.api \in apis
    /\ LastCall.err # NoErr

\* C25: the error diagnostic returned for a failed remote call carries the
\* error the remote call returned, unmodified, and the identity when one is
\* assigned; this holds for a failed tag listing in the FSx volume Read, a
\* failed CreateTaskSet in the ECS task set Create and a failed
\* CreateRepository.
C25_DiagnosticCarriesRemoteError ==
    FailedOn({ "ListTagsForResource", "CreateTaskSet", "CreateRepository" }) =>
        LET last == diags[Len(diags)]
        IN  /\ last.severity = "error"
            /\ last.err.code = LastCall.err.code
            /\ last.err.msg = LastCall.err.msg
            /\ id # EmptyId => last.id = id

\* the status probes of the waits that follow a create call
CreateProbeAPIs == { "GetResourceShares", "DescribeVolumes", "GetContainerServices" }

\* this step is one probe of the wait that follows the create call of a RAM
\* share, an FSx volume or a Lightsail container service
CreateWaitStep ==
    /\ op = "Create"
    /\ rtype \in { "ram", "fsx", "lightsail" }
    /\ pc \in { "Create.active", "Create.created" }
    /\ Len(calls') = Len(calls) + 1

\* C26: if the wait that follows a successful create call fails or times out
\* (RAM share active wait, FSx volume created wait, Lightsail created wait),
\* Create returns an error, issues no delete or other compensating call, and
\* the identity assigned after the create call stays set.
C26_NoRollbackAfterFailedWait ==
    [][CreateWaitStep =>
          /\ calls'[Len(calls')].api \in CreateProbeAPIs
          /\ calls'[Len(calls')].err # NoErr => pc' = "done"
          /\ polls + 1 >= CreatePolls => pc' # pc
          /\ pc' = "done" =>
                /\ outcome' = "returned"
                /\ HasError(diags')
                /\ id # EmptyId
                /\ id' = id
                /\ calls[1].api \in CreateAPIs /\ calls[1].err = NoErr
                /\ \A i \in 2..Len(calls') : calls'[i].api \in CreateProbeAPIs]_vars

\* the created wait of an FSx volume timed out
C26_Witness ==
    /\ op = "Create"
    /\ rtype = "fsx"
    /\ pc = "done"
    /\ id = IdOf("fsx")
    /\ Len(calls) = 1 + CreatePolls
    /\ \A i \in 1..Len(calls) : calls[i].err = NoErr
    /\ Len(diags) = 1
    /\ diags[1].summary = "waiting for FSx Volume create"
    /\ diags[1].err.kind = "TimedOut"

\* the probes of waitTaskSetStable in the call log: the describe calls made
\* before the Read, whose first describe call asks for the tags
StabilityProbes ==
    { i \in CallsOf("DescribeTaskSets") :
          \A j \in 1..i : ~(calls[j].api = "DescribeTaskSets" /\ calls[j].tagged) }

\* the Create or Update of a task set has reached its final Read or has
\* returned without error
TaskSetPastWait ==
    /\ rtype = "ecs"
    /\ op \in { "Create", "Update" }
    /\ \/ pc \in ReadPositions
       \/ pc = "done" /\ outcome = "returned" /\ ~HasError(diags)

\* the stability wait is due: wait_until_stable is set, and the handler is
\* Create or an Update of something other than the tags
StabilityWaitDue ==
    cfg.wait_until_stable /\ (op = "Create" \/ cfg.changed # {})

\* a Create or Update that is past its wait has probed the stability exactly
\* when the wait was due, and then before the calls of the Read
StabilityWaitedWhenDue ==
    TaskSetPastWait =>
        /\ StabilityProbes # {} <=> StabilityWaitDue
        /\ Cardinality(StabilityProbes) <= StablePolls
        /\ \A i \in StabilityProbes : calls[i].err = NoErr

\* C27: with wait_until_stable set, the Create and the non-tag Update of an
\* ECS task set go on to the final Read, and so return without error, only
\* after a probe made within wait_until_stable_timeout saw the task set
\* stable; a wait that ends otherwise ends the handler with an error; with
\* wait_until_stable unset no stability probe is made.
C27_StableBeforeRead ==
    [][/\ StabilityWaitedWhenDue'
       /\ (rtype = "ecs" /\ pc \in { "Create.stable", "Update.stable" } /\ pc' # pc) =>
             /\ StabilityWaitDue
             /\ polls < StablePolls
             /\ IF lookup'.err = NoErr /\ lookup'.out.status = "STEADY_STATE"
                THEN pc' \in { "Create.tag", "Update.untag", "Update.tag", "Read.lookup" }
                ELSE pc' = "done" /\ HasError(diags')]_vars

\* a Create with wait_until_stable set returned without error: the second
\* probe saw the task set stable
C27_Witness ==
    /\ rtype = "ecs"
    /\ op = "Create"
    /\ cfg.wait_until_stable
    /\ pc = "done"
    /\ outcome = "returned"
    /\ ~HasError(diags)
    /\ Cardinality(StabilityProbes) = 2

\* an Update of the CIDR location returned without error
CidrUpdated ==
    /\ rtype = "route53"
    /\ op = "Update"
    /\ pc = "done"
    /\ outcome = "returned"
    /\ ~HasError(diags)
    /\ id # EmptyId

ReadEndsOnLookupError(types) ==
    /\ rtype \in types
    /\ pc = "Read.lookup"
    /\ pc' = "done"
    /\ lookup'.err # NoErr

\* the Read ended cleanly: identity cleared, or an error diagnostic returned
ReadEndedCleanly ==
    /\ outcome' = "returned"
    /\ id' = EmptyId \/ HasError(diags')

\* C30: in every Read, a lookup that returns an error ends the Read with the
\* identity cleared (resource absent) or with an error diagnostic; the Read
\* never goes on to the fields of the record it did not get.
C30_LookupErrorEndsRead ==
    [][ReadEndsOnLookupError({ "ecr", "fsx", "lightsail" }) => ReadEndedCleanly]_vars

\* the same for the FSx and Lightsail Reads alone
C30_FinderReadsEndCleanly ==
    [][ReadEndsOnLookupError({ "fsx", "lightsail" }) => ReadEndedCleanly]_vars

\* the identity is not three non-empty parts separated by ','
MalformedIdentity(rid) == Delimiters(rid) # 2 \/ HasEmptyPart(rid)

\* the first step of an ECS task set Read or Delete on a malformed identity
MalformedIdentityStep ==
    /\ rtype = "ecs"
    /\ op \in { "Read", "Delete" }
    /\ pc \in { "Read.lookup", "Delete.call" }
    /\ calls = << >>
    /\ MalformedIdentity(id)

\* C31: for an identity TaskSetParseID rejects, the ECS task set Read and
\* Delete return an error diagnostic without issuing a remote call and without
\* changing the identity or any attribute; the identity is not retried and
\* not treated as not found.
C31_MalformedIdentityTerminal ==
    [][MalformedIdentityStep =>
          /\ pc' = "done"
          /\ outcome' = "returned"
          /\ HasError(diags')
          /\ calls' = << >>
          /\ polls' = polls
          /\ id' = id
          /\ d' = d]_vars

\* a Delete of a task set with a malformed identity has returned
C31_Witness ==
    /\ rtype = "ecs"
    /\ op = "Delete"
    /\ pc = "done"
    /\ outcome = "returned"
    /\ MalformedIdentity(id)
    /\ HasError(diags)
    /\ calls = << >>

\* the requests of UpdateTags in the call log
UntagCalls == CallsOf("UntagResource")
AddTagCalls == CallsOf("TagResource")

\* the old and the new tag map UpdateTags was handed
OldTags == d.tags_all
NewTags == SetTagsDiff(defaultTags, cfg.tags, ignoreKeys)

\* UpdateTags is running or has run, and nothing else has
InUpdateTags ==
    /\ op = "Update"
    /\ \A i \in 1..Len(calls) : calls[i].api \in { "UntagResource", "TagResource" }

\* C32: UpdateTags issues the untag request before the tag request; when the
\* untag request fails the tag request is not issued and an error is
\* returned; when the tag request fails after a successful untag an error is
\* returned and no further request undoes the removal.
C32_UntagBeforeTag ==
    InUpdateTags =>
        /\ Cardinality(UntagCalls) <= 1
        /\ Cardinality(AddTagCalls) <= 1
        /\ \A i \in UntagCalls, j \in AddTagCalls : i < j /\ calls[i].err = NoErr
        /\ \A i \in UntagCalls \cup AddTagCalls :
              calls[i].err # NoErr =>
                 /\ i = Len(calls)
                 /\ pc = "done"
                 /\ outcome = "returned"
                 /\ HasError(diags)
        /\ (pc = "Update.tag" /\ Removed(OldTags, NewTags) # EmptyTags) => UntagCalls # {}

\* the tag request failed after the untag request succeeded
C32_Witness ==
    /\ InUpdateTags
    /\ Len(calls) = 2
    /\ calls[1].api = "UntagResource" /\ calls[1].err = NoErr
    /\ calls[2].api = "TagResource" /\ calls[2].err # NoErr
    /\ pc = "done"
    /\ HasError(diags)

\* C33: UpdateTags sends the untag request only when it has at least one key
\* to send and the tag request only when it has at least one tag to send,
\* counted after the reserved aws: keys are removed; it never sends an empty
\* key list or tag list, and with equal old and new maps it issues no call.
C33_NoEmptyTagRequest ==
    InUpdateTags =>
        /\ \A i \in UntagCalls \cup AddTagCalls : DOMAIN calls[i].tags # {}
        /\ OldTags = NewTags => calls = << >>

\* the part of C33 the code keeps: no call for equal maps, no call for an
\* empty difference, and no reserved key in a request
C33_RequestsFollowDifference ==
    InUpdateTags =>
        /\ OldTags = NewTags => calls = << >>
        /\ \A i \in UntagCalls :
              /\ Removed(OldTags, NewTags) # EmptyTags
              /\ calls[i].tags = IgnoreAWS(Removed(OldTags, NewTags))
        /\ \A i \in AddTagCalls :
              /\ Updated(OldTags, NewTags) # EmptyTags
              /\ calls[i].tags = IgnoreAWS(Updated(OldTags, NewTags))

\* the step of the ECR Read that lists the tags
RepositoryListTagsStep ==
    /\ rtype = "ecr"
    /\ pc = "Read.tags"
    /\ Len(calls') = Len(calls) + 1

\* the tag listing failed with the partition-unsupported signature on a
\* partition other than "aws"
UnsupportedOnPartition(e) ==
    /\ partition # "aws"
    /\ ErrCodeEquals(e, { ISOUnsupportedCode })

\* C34: on a non-primary partition, when listing tags fails with the
\* partition-unsupported signature, the ECR Read returns no error and leaves
\* tags and tags_all as they were, while the non-tag attributes are
\* refreshed; any other tag-listing error makes Read return an error.
C34_TagListingUnsupportedKeepsTags ==
    [][RepositoryListTagsStep =>
          LET e == calls'[Len(calls')].err
          IN  /\ pc' = "done"
              /\ outcome' = "returned"
              /\ UnsupportedOnPartition(e) =>
                    /\ ~HasError(diags')
                    /\ d'.tags = d.tags
                    /\ d'.tags_all = d.tags_all
                    /\ d'.arn = "arn"
                    /\ id' = id
              /\ (e # NoErr /\ ~UnsupportedOnPartition(e)) =>
                    /\ HasError(diags')
                    /\ d' = d]_vars

\* a Read of a repository with tags ended on the unsupported tag listing
C34_Witness ==
    /\ rtype = "ecr"
    /\ op = "Read"
    /\ pc = "done"
    /\ partition # "aws"
    /\ Len(calls) > 0
    /\ LastCall.api = "ListTagsForResource"
    /\ ErrCodeEquals(LastCall.err, { ISOUnsupportedCode })
    /\ ~HasError(diags)
    /\ d.tags_all # EmptyTags
    /\ d.arn = "arn"

\* the Update of an API whose cors_configuration changed
CorsChanged ==
    /\ rtype = "apigatewayv2"
    /\ op = "Update"
    /\ "cors_configuration" \in cfg.changed

\* the Update is past its UpdateApi step: it failed, or went on to the tags
\* or the Read
PastUpdateApi ==
    pc \in { "Update.untag", "Update.tag", "Read.lookup", "done" }

UpdateApiCalls == CallsOf("UpdateApi")

\* C35: in resourceAPIUpdate, when cors_configuration changes to empty,
\* DeleteCorsConfiguration is called and no UpdateApi request of the same
\* Update carries a CorsConfiguration, whatever other fields changed; when it
\* changes to a non-empty value, DeleteCorsConfiguration is not called and
\* the UpdateApi request carries the new configuration.
C35_CorsDeletedNotResent ==
    CorsChanged =>
        /\ cfg.cors_empty =>
              /\ CallsOf("DeleteCorsConfiguration") # {} \/ pc = "Update.cors"
              /\ \A i \in UpdateApiCalls : calls[i].req.CorsConfiguration = "nil"
        /\ ~cfg.cors_empty =>
              /\ CallsOf("DeleteCorsConfiguration") = {}
              /\ \A i \in UpdateApiCalls : calls[i].req.CorsConfiguration = "set"
              /\ PastUpdateApi => UpdateApiCalls # {}

\* the part of C35 the code keeps: the delete call is made exactly for a
\* change to empty, and a change to a non-empty value is sent by UpdateApi
C35_CorsDeleteOrUpdate ==
    CorsChanged =>
        /\ cfg.cors_empty =>
              /\ CallsOf("DeleteCorsConfiguration") # {} \/ pc = "Update.cors"
              /\ \A i \in UpdateApiCalls :
                    /\ "name" \in cfg.changed
                    /\ calls[i].req.CorsConfiguration = "empty"
        /\ ~cfg.cors_empty =>
              /\ CallsOf("DeleteCorsConfiguration") = {}
              /\ \A i \in UpdateApiCalls : calls[i].req.CorsConfiguration = "set"
              /\ PastUpdateApi => UpdateApiCalls # {}

\* the step of the RAM Read whose lookup returned a share that is not ACTIVE
ShareNotActiveStep ==
    /\ rtype = "ram"
    /\ pc = "Read.lookup"
    /\ Len(calls') = Len(calls) + 1
    /\ lookup'.err = NoErr
    /\ lookup'.out.status # "ACTIVE"

\* C36: the Read of a tracked RAM resource share whose remote status is not
\* ACTIVE clears the identity and returns no error without updating any
\* attribute; for a newly created share a status that is not ACTIVE never
\* clears the identity.
C36_InactiveShareDropped ==
    [][ShareNotActiveStep =>
          /\ ~isNew =>
                /\ id' = EmptyId
                /\ pc' = "done"
                /\ outcome' = "returned"
                /\ diags' = diags
                /\ d' = d
          /\ isNew => id' = id /\ id' # EmptyId]_vars

\* a Read of a tracked share ended on a status that is not ACTIVE
C36_Witness ==
    /\ rtype = "ram"
    /\ op = "Read"
    /\ ~isNew
    /\ pc = "done"
    /\ lookup.err = NoErr
    /\ lookup.out.status = "PENDING"
    /\ id = EmptyId
    /\ ~HasError(diags)

\* the Read that ends a Create went on with a share that is not ACTIVE
C36_NewShareWitness ==
    /\ rtype = "ram"
    /\ op = "Create"
    /\ isNew
    /\ pc = "Read.permissions"
    /\ lookup.out.status = "PENDING"
    /\ id # EmptyId

\* the Create of a Lightsail container service
ContainerServiceCreating == rtype = "lightsail" /\ op = "Create"

\* the calls from position a to position b are probes of a wait
AllProbes(a, b) ==
    /\ a <= b
    /\ \A i \in a..b : calls[i].api = "GetContainerServices" /\ calls[i].err = NoErr

\* the calls a Create has made when it reaches its Read: the create call and
\* the wait, and with is_disabled the update call and the second wait
CreateCallsInOrder ==
    /\ calls[1].api = "CreateContainerService"
    /\ calls[1].err = NoErr
    /\ IF cfg.is_disabled
       THEN \E k \in 3..(Len(calls) - 1) :
               /\ AllProbes(2, k - 1)
               /\ calls[k].api = "UpdateContainerService"
               /\ calls[k].err = NoErr
               /\ AllProbes(k + 1, Len(calls))
       ELSE AllProbes(2, Len(calls))

ContainerServiceCreateOrdered ==
    ContainerServiceCreating =>
        /\ ~cfg.is_disabled => CallsOf("UpdateContainerService") = {}
        /\ Cardinality(CallsOf("UpdateContainerService")) <= 1
        /\ pc = "Read.lookup" => CreateCallsInOrder
        /\ (pc = "done" /\ outcome = "returned" /\ ~HasError(diags)) =>
              /\ LastCall.api = "GetContainerServices"
              /\ cfg.is_disabled <=> CallsOf("UpdateContainerService") # {}

\* C37: with is_disabled true, resourceContainerServiceCreate performs in
\* order CreateContainerService, the wait until created, UpdateContainerService
\* with IsDisabled set, the wait until disabled and the Read, and returns
\* without error only after the service was observed disabled; with
\* is_disabled false Create issues no update call.
C37_DisabledBeforeRead ==
    [][/\ ContainerServiceCreateOrdered'
       /\ (ContainerServiceCreating /\ op' = op /\ pc # "Read.lookup" /\ pc' = "Read.lookup") =>
             /\ pc = IF cfg.is_disabled THEN "Create.disabled" ELSE "Create.created"
             /\ lookup'.err = NoErr
             /\ lookup'.out.status = IF cfg.is_disabled THEN "DISABLED" ELSE "READY"
       /\ (ContainerServiceCreating /\ pc = "Create.disabled" /\ pc' # pc) =>
             IF lookup'.err = NoErr /\ lookup'.out.status = "DISABLED"
             THEN pc' = "Read.lookup"
             ELSE pc' = "done" /\ HasError(diags')]_vars

\* a Create with is_disabled set returned without error
C37_Witness ==
    /\ ContainerServiceCreating
    /\ cfg.is_disabled
    /\ pc = "done"
    /\ outcome = "returned"
    /\ ~HasError(diags)
    /\ Len(calls) >= 5
    /\ calls[3].api = "UpdateContainerService"

\* containerServicePublicDomainNamesChanged has run on the old value o and
\* the new value n
Compared == rtype = "lightsail" /\ pc = "Update.call" /\ lookup.compared

\* the certificates of a public_domain_names value, and their domain lists
CertificatesOf(raw) == IF Len(raw) = 0 THEN {} ELSE DOMAIN raw[1]
DomainsOf(raw, c) == raw[1][c]

\* C38: when the old and the new public-domain-name maps differ,
\* containerServicePublicDomainNamesChanged returns a map with every entry of
\* the new map unchanged plus, for every certificate of the old map that the
\* new map lacks, an entry with an empty domain list, and no other key; when
\* they do not differ it returns the new map as it is, with changed false.
C38_DetachedCertificatesEmptied ==
    Compared =>
        LET o == d.public_domain_names
            n == cfg.public_domain_names
            out == lookup.names
        IN  IF o # n
            THEN /\ lookup.changed
                 /\ ~out.nil
                 /\ DOMAIN out.m = CertificatesOf(o) \cup CertificatesOf(n)
                 /\ \A c \in CertificatesOf(n) : out.m[c] = DomainsOf(n, c)
                 /\ \A c \in CertificatesOf(o) \ CertificatesOf(n) : out.m[c] = << >>
            ELSE /\ ~lookup.changed
                 /\ out.nil <=> Len(n) = 0
                 /\ DOMAIN out.m = CertificatesOf(n)
                 /\ \A c \in CertificatesOf(n) : out.m[c] = DomainsOf(n, c)

\* one certificate was removed from the configuration and one kept
C38_Witness ==
    /\ Compared
    /\ CertificatesOf(d.public_domain_names) = { "c1", "c2" }
    /\ CertificatesOf(cfg.public_domain_names) = { "c2" }
    /\ lookup.changed
    /\ lookup.names.m["c1"] = << >>
    /\ lookup.names.m["c2"] = DomainsOf(cfg.public_domain_names, "c2")

\* the Read of the solution stack data source has listed the stacks
StacksListed ==
    /\ rtype = "elasticbeanstalk_solution_stack"
    /\ pc = "done"
    /\ lookup.err = NoErr

\* the listed stacks that name_regex matches
MatchingStacks == { lookup.stacks[i] : i \in 1..Len(lookup.stacks) } \cap cfg.name_regex

\* the stack s became the identity and the name attribute
Selected(s) ==
    /\ ~HasError(diags)
    /\ id = StackName(s)
    /\ d.name = StackName(s)

\* the Read failed and set no identity
NothingSelected == HasError(diags) /\ id = EmptyId /\ d.name = EmptyId

\* C39: dataSourceSolutionStackRead, over the listed solution stacks whose
\* name matches name_regex: with no match it returns an error and sets no
\* identity; with one match it selects that stack; with two or more matches
\* it returns an error unless most_recent is true, and then selects the most
\* recent of the matches.  The selected stack is the identity and the name.
C39_MostRecentStackSelected ==
    StacksListed =>
        IF MatchingStacks = {} THEN NothingSelected
        ELSE IF Cardinality(MatchingStacks) = 1
        THEN \A s \in MatchingStacks : Selected(s)
        ELSE IF cfg.most_recent
        THEN \E s \in MatchingStacks : Selected(s) /\ \A t \in MatchingStacks : t <= s
        ELSE NothingSelected

\* what the code does with several matches and most_recent set: it selects
\* the match the service listed first
C39_FirstListedStackSelected ==
    StacksListed =>
        IF MatchingStacks = {} THEN NothingSelected
        ELSE IF Cardinality(MatchingStacks) = 1
        THEN \A s \in MatchingStacks : Selected(s)
        ELSE IF cfg.most_recent
        THEN \E i \in 1..Len(lookup.stacks) :
                /\ Selected(lookup.stacks[i])
                /\ lookup.stacks[i] \in MatchingStacks
                /\ \A j \in 1..(i - 1) : lookup.stacks[j] \notin MatchingStacks
        ELSE NothingSelected

\* the validator of wait_until_stable_timeout has run
Validated == op = "Validate" /\ pc = "done"

\* C40: the wait_until_stable_timeout validator rejects every value that
\* cannot be parsed as a duration and every duration that is not greater
\* than zero, and accepts every strictly positive duration.
C40_TimeoutMustBePositive ==
    Validated =>
        (lookup.errors = {} <=> (lookup.err = NoErr /\ lookup.duration > 0))

\* what the validator does: it rejects what cannot be parsed and the
\* negative durations, and accepts zero
C40_TimeoutNotNegative ==
    Validated =>
        (lookup.errors = {} <=> (lookup.err = NoErr /\ lookup.duration >= 0))

====
